---- MODULE Spec2Model ----
(***************************************************************************)
(* A model of claude-swarm's orchestration core:                           *)
(*   - the Gateway (BaseAgent.invoke and _parse_output, agents/base.py),   *)
(*   - the session aggregate and its durable record (orchestrator.py),     *)
(*   - the plan executor (Orchestrator.execute_plan),                      *)
(*   - the fixed pipeline with its two review workers (run_pipeline).      *)
(*                                                                         *)
(* Python values that may be of several types (a JSON value read from the  *)
(* collaborator's reply) are written as strings: "None", "True", "False",  *)
(* and a Python string s as 's' (with its quotes), so '' is the empty      *)
(* string.  "<missing>" stands for a key that a JSON object does not have. *)
(***************************************************************************)
EXTENDS Integers, Sequences, FiniteSets, TLC

VARIABLES
    \* --- Gateway (BaseAgent.invoke) ---
    gw_pc,          \* "ready" | "done"
    gw_kind,        \* the agent kind of the invocation
    gw_collab,      \* what the external collaborator did: [outcome, output]
    gw_result,      \* the AgentResult returned, NoResult before the call
    agent,          \* the agent instance AgentRegistry.create has built
    \* --- Orchestrator (one process) and the workspace ---
    state,          \* Orchestrator.state: NoSession or a SwarmState
    disk,           \* workspace/state/<session_id>.json: NoRecord or a record
    exec_pc,        \* position of the control thread inside execute_plan
    exec_i,         \* index of the task the execute_plan loop is at
    exec_ret,       \* the Result invoke_agent is returning to execute_plan
    exec_results,   \* execute_plan's local `results`: task id -> Result
    calls,          \* number of execute_plan calls begun so far
    crashes,        \* number of process crashes so far
    inv,            \* the arguments of the latest Gateway invocation
    \* --- run_pipeline ---
    cfg,            \* configuration and arguments of the run_pipeline call
    pipe_pc,        \* position of the coordinating thread in run_pipeline
    pipe_results,   \* run_pipeline's local `results`: stage name -> Result
    worker,         \* the two pool workers: stage name -> worker record
    invoked,        \* the stages whose Gateway invocation has started
    writes,         \* who wrote the session or its record: <<thread, field>>
    \* --- the caller of the API: start_session, invoke_agent, plan_feature ---
    task_counter,   \* Orchestrator._task_counter
    last,           \* the latest call of the API and how it ended
    log             \* session id -> the Results of the caller's invoke_agent
                    \* calls on that session, oldest first

vars == <<gw_pc, gw_kind, gw_collab, gw_result, agent,
          state, disk, inv, exec_pc, exec_i, exec_ret, exec_results, calls, crashes,
          cfg, pipe_pc, pipe_results, worker, invoked, writes,
          task_counter, last, log>>

gw_vars   == <<gw_pc, gw_kind, gw_collab, gw_result, agent>>
exec_vars == <<exec_pc, exec_i, exec_ret, exec_results, calls, crashes>>
pipe_vars == <<cfg, pipe_pc, pipe_results, worker, invoked, writes>>
api_vars  == <<task_counter, last, log>>

-----------------------------------------------------------------------------
(* Python values *)

PyNone  == "None"
PyTrue  == "True"
PyFalse == "False"
Missing == "<missing>"

\* bool(v) of Python, on the values the model uses.
Truthy(v) == v \notin {PyNone, PyFalse, "''", "0", "[]"}

\* dict.get(key, default) on a field that holds Missing when the key is absent.
Get(v, default) == IF v = Missing THEN default ELSE v

\* A Python string that is not empty.
NonEmptyStr(v) == v \notin {PyNone, PyTrue, PyFalse, Missing, "''", "0"}

-----------------------------------------------------------------------------
(* agents/base.py: AgentType, AgentResult *)

AgentType == {"orchestrator", "coder", "reviewer", "security", "tester", "docs",
              "architect", "refactor", "debugger", "mobile_ui", "mobile_perf",
              "aws", "infra"}

\* Task.result = None
NoResult == [is_none |-> TRUE]

AgentResult(kind, success, summary, changed, created, blocked, reason, raw) ==
    [agent_type    |-> kind,
     success       |-> success,
     summary       |-> summary,
     files_changed |-> changed,
     files_created |-> created,
     blocked       |-> blocked,
     block_reason  |-> reason,
     raw_output    |-> raw]

-----------------------------------------------------------------------------
(* agents/base.py: BaseAgent.__init__, with the class attributes of          *)
(* agents/specialized.py.  A list is written by its repr: "[]".           *)

\* No agent built yet.
NoAgent == [is_none |-> TRUE]

\* specialized.py 11-15 and 53-57: the defaults of two kinds
AgentDefaults(kind) ==
    IF kind = "coder"
    THEN [system_prompt |-> "'You are a specialized CODE WRITER agent'",
          allowed_tools |-> "['Read', 'Write', 'Edit', 'Bash', 'Glob', 'Grep']",
          max_turns     |-> "15"]
    ELSE [system_prompt |-> "'You are a specialized CODE REVIEWER agent'",
          allowed_tools |-> "['Read', 'Glob', 'Grep']",
          max_turns     |-> "10"]

\* config_override = None
NoOverride == [is_none |-> TRUE]

\* The dict {}: none of the three keys is in it.
EmptyConfig ==
    [system_prompt_override |-> Missing, allowed_tools |-> Missing, max_turns |-> Missing]

\* The values of config_override: None, or a dict in which each of the three
\* keys is absent, None, falsy or truthy.
ConfigOverrides ==
    {NoOverride}
    \cup [system_prompt_override : {Missing, PyNone, "''", "'Custom prompt for testing'"},
          allowed_tools          : {Missing, PyNone, "[]", "['Read']"},
          max_turns              : {Missing, PyNone, "0", "20"}]

\* BuildAgent with a fault: a key that is in the dict overrides, whatever its
\* value.
BuildAgentKeyPresent(kind, override) ==
    LET config == IF override = NoOverride THEN EmptyConfig ELSE override
        d      == AgentDefaults(kind)
    IN [agent_type    |-> kind,
        config        |-> config,
        system_prompt |-> Get(config.system_prompt_override, d.system_prompt),
        allowed_tools |-> Get(config.allowed_tools, d.allowed_tools),
        max_turns     |-> Get(config.max_turns, d.max_turns)]

\* base.py 104-124: config_override or {}, then self.config.get(key) decides
BuildAgent(kind, override) ==
    LET config == IF override = NoOverride THEN EmptyConfig ELSE override
        d      == AgentDefaults(kind)
    IN [agent_type    |-> kind,
        config        |-> config,
        system_prompt |-> IF Truthy(Get(config.system_prompt_override, PyNone))
                          THEN config.system_prompt_override ELSE d.system_prompt,
        allowed_tools |-> IF Truthy(Get(config.allowed_tools, PyNone))
                          THEN config.allowed_tools ELSE d.allowed_tools,
        max_turns     |-> IF Truthy(Get(config.max_turns, PyNone))
                          THEN config.max_turns ELSE d.max_turns]

-----------------------------------------------------------------------------
(* The external collaborator's reply, as far as _parse_output looks at it.   *)
(* One reply may hold several of the forms: the parse takes them in order.   *)

\* json.loads(output): not JSON at all, or a JSON object with these keys.
NotJson == [is_dict |-> FALSE, type |-> Missing, subtype |-> Missing, error |-> Missing]

RawReplies ==
    {NotJson,
     [is_dict |-> TRUE, type |-> "other", subtype |-> Missing, error |-> Missing]}
    \cup [is_dict : {TRUE}, type : {"result"},
          subtype : {Missing, "success", "error", "error_max_turns", "interactive"},
          error   : {Missing, PyNone, "''", "'rate limit'"}]

\* A fenced ```json block: absent, not parsable, or an object with these keys.
NoJsonBlock == [present |-> FALSE, valid |-> FALSE, blocked |-> Missing,
                block_reason |-> Missing, files_changed |-> <<>>]

JsonBlocks ==
    {NoJsonBlock, [NoJsonBlock EXCEPT !.present = TRUE]}
    \cup [present : {TRUE}, valid : {TRUE},
          blocked       : {Missing, PyTrue, PyFalse, PyNone, "'yes'"},
          block_reason  : {Missing, PyNone, "''", "'hardcoded secret found'"},
          files_changed : {<<>>, <<"a.py">>}]

\* A line of a fenced ```summary block: the text before and after the first ":".
Line(has_colon, key, value) == [has_colon |-> has_colon, key |-> key, value |-> value]

SummaryLines ==
    {Line(FALSE, "done", ""),
     Line(TRUE, "blocked", " yes"),
     Line(TRUE, "Blocked", " TRUE"),
     Line(TRUE, "blocked", " no"),
     Line(TRUE, "blocked", ""),
     Line(TRUE, "Block Reason", " hardcoded secret found"),
     Line(TRUE, "block_reason", ""),
     Line(TRUE, "files_changed", " a.py, b.py"),
     Line(TRUE, "Files Created", " c.py")}

MaxLines == 2

SeqsUpTo(S, n) == UNION {[1..k -> S] : k \in 0..n}

NoSummaryBlock == [present |-> FALSE, lines |-> <<>>]

SummaryBlocks ==
    {NoSummaryBlock} \cup [present : {TRUE}, lines : SeqsUpTo(SummaryLines, MaxLines)]

Output(raw, jb, sb) == [raw |-> raw, json_block |-> jb, summary_block |-> sb]

\* Plain text: none of the structured forms.
PlainText == Output(NotJson, NoJsonBlock, NoSummaryBlock)

Outputs ==
    {Output(r, NoJsonBlock, NoSummaryBlock) : r \in RawReplies}
    \cup {Output(r, jb, sb) : r \in {x \in RawReplies : x.type # "result"},
                              jb \in JsonBlocks, sb \in SummaryBlocks}

-----------------------------------------------------------------------------
(* agents/base.py: BaseAgent._parse_output *)

\* key.strip().lower().replace(" ", "_")
NormKey(k) ==
    CASE k = "Blocked"       -> "blocked"
      [] k = "Block Reason"  -> "block_reason"
      [] k = "Files Created" -> "files_created"
      [] OTHER               -> k

\* value.strip()
Strip(v) ==
    CASE v = " yes"  -> "yes"
      [] v = " TRUE" -> "TRUE"
      [] v = " no"   -> "no"
      [] v = " hardcoded secret found" -> "hardcoded secret found"
      [] v = " a.py, b.py" -> "a.py, b.py"
      [] v = " c.py" -> "c.py"
      [] OTHER -> v

\* value.lower()
Lower(v) == IF v = "TRUE" THEN "true" ELSE v

\* [f.strip() for f in value.split(",") if f.strip()]
SplitFiles(v) ==
    CASE v = "a.py, b.py" -> <<"a.py", "b.py">>
      [] v = "c.py"       -> <<"c.py">>
      [] v = ""           -> <<>>
      [] OTHER            -> <<v>>

\* A Python str object holding the text v.
PyStr(v) ==
    CASE v = "" -> "''"
      [] v = "hardcoded secret found" -> "'hardcoded secret found'"
      [] OTHER -> v

ParseDefaults ==
    [summary       |-> "",
     files_changed |-> <<>>,
     files_created |-> <<>>,
     blocked       |-> PyFalse,
     block_reason  |-> PyNone]

\* base.py 375: isinstance(raw_json, dict) and raw_json.get("type") == "result"
IsCliResult(raw) == raw.is_dict /\ raw.type = "result"

\* base.py 377-392: the Claude CLI's own JSON reply
ParseRaw(raw) ==
    LET subtype == Get(raw.subtype, "") IN
    CASE subtype = "error_max_turns" ->
            [ParseDefaults EXCEPT
                !.summary = "Agent reached maximum turns limit",
                !.blocked = PyTrue,
                !.block_reason = "'Max turns reached - task may be too complex'"]
      [] subtype = "error" ->
            [ParseDefaults EXCEPT
                !.summary = "Agent error",
                !.blocked = PyTrue,
                !.block_reason = Get(raw.error, "'Unknown error'")]
      [] subtype = "interactive" ->
            [ParseDefaults EXCEPT !.summary = "Running in separate terminal"]
      [] OTHER ->
            [ParseDefaults EXCEPT !.summary = "Task completed"]

\* base.py 400-402: result.update(parsed)
ParseJsonBlock(jb) ==
    [ParseDefaults EXCEPT
        !.summary       = "summary of the json block",
        !.files_changed = jb.files_changed,
        !.blocked       = Get(jb.blocked, ParseDefaults.blocked),
        !.block_reason  = Get(jb.block_reason, ParseDefaults.block_reason)]

\* base.py 413-424: one line of the summary block applied to the record so far
ParseLine(result, line) ==
    IF ~line.has_colon THEN result
    ELSE LET key   == NormKey(line.key)
             value == Strip(line.value)
         IN CASE key = "files_changed" -> [result EXCEPT !.files_changed = SplitFiles(value)]
              [] key = "files_created" -> [result EXCEPT !.files_created = SplitFiles(value)]
              [] key = "blocked" ->
                    [result EXCEPT !.blocked =
                        IF Lower(value) \in {"yes", "true", "1"} THEN PyTrue ELSE PyFalse]
              [] key = "block_reason" -> [result EXCEPT !.block_reason = PyStr(value)]
              [] OTHER -> result

RECURSIVE ParseLines(_, _)
ParseLines(result, lines) ==
    IF lines = <<>> THEN result
    ELSE ParseLines(ParseLine(result, Head(lines)), Tail(lines))

\* base.py 407-424
ParseSummaryBlock(sb) ==
    ParseLines([ParseDefaults EXCEPT !.summary = "text of the summary block"], sb.lines)

\* base.py 360-429
ParseOutput(out) ==
    IF IsCliResult(out.raw) THEN ParseRaw(out.raw)
    ELSE IF out.json_block.present /\ out.json_block.valid
         THEN ParseJsonBlock(out.json_block)
    ELSE IF out.summary_block.present THEN ParseSummaryBlock(out.summary_block)
    ELSE [ParseDefaults EXCEPT !.summary = "tail of the output"]

-----------------------------------------------------------------------------
(* agents/base.py: BaseAgent._invoke_background and BaseAgent.invoke *)

Collab(outcome, output) == [outcome |-> outcome, output |-> output]

\* What the collaborator can do: end with any reply, or never produce one.
Collabs ==
    {Collab(oc, out) : oc \in {"exit0", "exit_nonzero"}, out \in Outputs}
    \cup {Collab(oc, PlainText) : oc \in {"timeout", "not_found", "crash"}}

\* InvokeBackground with a fault: a timeout is reported as a clean exit.
InvokeBackgroundTimeoutOk(c) ==
    IF c.outcome \in {"not_found", "crash"}
    THEN [output |-> PlainText, success |-> FALSE]
    ELSE [output |-> c.output, success |-> (c.outcome \in {"exit0", "timeout"})]

\* base.py 218-249: (output, success); the three handlers return a fixed text
InvokeBackground(c) ==
    IF c.outcome \in {"timeout", "not_found", "crash"}
    THEN [output |-> PlainText, success |-> FALSE]
    ELSE [output |-> c.output, success |-> (c.outcome = "exit0")]

\* Invoke with a fault: success is the exit status alone.
InvokeExitStatusOnly(kind, c) ==
    LET run    == InvokeBackground(c)
        parsed == ParseOutput(run.output)
    IN AgentResult(kind,
                   run.success,
                   parsed.summary,
                   parsed.files_changed,
                   parsed.files_created,
                   parsed.blocked,
                   parsed.block_reason,
                   IF run.success THEN PyNone ELSE "'output'")

\* base.py 126-195: the AgentResult built from the exit status and the parse
Invoke(kind, c) ==
    LET run    == InvokeBackground(c)
        parsed == ParseOutput(run.output)
    IN AgentResult(kind,
                   run.success /\ ~Truthy(parsed.blocked),
                   parsed.summary,
                   parsed.files_changed,
                   parsed.files_created,
                   parsed.blocked,
                   parsed.block_reason,
                   IF run.success THEN PyNone ELSE "'output'")

-----------------------------------------------------------------------------
(* agents/base.py: AgentResult.to_summary_string and to_dict *)

Min(a, b) == IF a < b THEN a ELSE b
Max(a, b) == IF a > b THEN a ELSE b

\* str.upper() on the values of AgentType
Upper(kind) ==
    CASE kind = "orchestrator" -> "ORCHESTRATOR"
      [] kind = "coder"        -> "CODER"
      [] kind = "reviewer"     -> "REVIEWER"
      [] kind = "security"     -> "SECURITY"
      [] kind = "tester"       -> "TESTER"
      [] kind = "docs"         -> "DOCS"
      [] kind = "architect"    -> "ARCHITECT"
      [] kind = "refactor"     -> "REFACTOR"
      [] kind = "debugger"     -> "DEBUGGER"
      [] kind = "mobile_ui"    -> "MOBILE_UI"
      [] kind = "mobile_perf"  -> "MOBILE_PERF"
      [] kind = "aws"          -> "AWS"
      [] kind = "infra"        -> "INFRA"

\* f"{v}": the text of a str, the name of any other value
FormatValue(v) ==
    CASE v = "''" -> ""
      [] v = "'yes'" -> "yes"
      [] v = "'rate limit'" -> "rate limit"
      [] v = "'Unknown error'" -> "Unknown error"
      [] v = "'hardcoded secret found'" -> "hardcoded secret found"
      [] v = "'SQL injection vulnerability'" -> "SQL injection vulnerability"
      [] v = "'Max turns reached - task may be too complex'" ->
            "Max turns reached - task may be too complex"
      [] OTHER -> v

\* sep.join(parts)
RECURSIVE JoinWith(_, _)
JoinWith(parts, sep) ==
    IF parts = <<>> THEN ""
    ELSE IF Len(parts) = 1 THEN parts[1]
    ELSE parts[1] \o sep \o JoinWith(Tail(parts), sep)

\* ToSummaryString with a fault: the first three paths are listed, the
\* count of the others is left out.
ToSummaryStringNoMore(r) ==
    JoinWith(
        <<"[" \o Upper(r.agent_type) \o "]", IF r.success THEN "<U+2713>" ELSE "<U+2717>">>
        \o (IF r.files_changed # <<>>
            THEN <<"Changed: " \o JoinWith(SubSeq(r.files_changed, 1,
                                                  Min(3, Len(r.files_changed))), ", ")>>
            ELSE <<>>)
        \o (IF Truthy(r.blocked)
            THEN <<"<U+26D4> BLOCKED: " \o FormatValue(r.block_reason)>>
            ELSE <<>>),
        " | ")

\* base.py 72-93.  The three signs of the text are written by their code
\* points; the Results of the model carry no issues (base.py 82-88).
ToSummaryString(r) ==
    JoinWith(
        <<"[" \o Upper(r.agent_type) \o "]", IF r.success THEN "<U+2713>" ELSE "<U+2717>">>
        \o (IF r.files_changed # <<>>
            THEN <<"Changed: " \o JoinWith(SubSeq(r.files_changed, 1,
                                                  Min(3, Len(r.files_changed))), ", ")>>
                 \o (IF Len(r.files_changed) > 3
                     THEN <<"(+" \o ToString(Len(r.files_changed) - 3) \o " more)">>
                     ELSE <<>>)
            ELSE <<>>)
        \o (IF Truthy(r.blocked)
            THEN <<"<U+26D4> BLOCKED: " \o FormatValue(r.block_reason)>>
            ELSE <<>>),
        " | ")

\* base.py 55-70, AgentResult.to_dict: raw_output is not written.
ResultToDict(r) ==
    [agent_type    |-> r.agent_type,
     success       |-> r.success,
     summary       |-> r.summary,
     files_changed |-> r.files_changed,
     files_created |-> r.files_created,
     blocked       |-> r.blocked,
     block_reason  |-> r.block_reason]

-----------------------------------------------------------------------------
(* orchestrator.py: Task, SwarmState, to_dict / from_dict *)

TaskStatus == {"pending", "running", "completed", "failed", "blocked"}

Task(id, kind, context_files, depends_on, status, result) ==
    [id            |-> id,
     agent_type    |-> kind,
     context_files |-> context_files,
     depends_on    |-> depends_on,
     status        |-> status,
     result        |-> result]

\* Orchestrator.state = None
NoSession == [is_none |-> TRUE]

\* No file workspace/state/<session_id>.json
NoRecord == [is_none |-> TRUE]

SwarmState(session_id, architecture, tasks, completed_summaries, blockers) ==
    [session_id          |-> session_id,
     architecture        |-> architecture,
     tasks               |-> tasks,
     completed_summaries |-> completed_summaries,
     blockers            |-> blockers]

\* orchestrator.py 39-48
TaskToDict(t) ==
    [t EXCEPT !.result = IF t.result = NoResult THEN NoResult ELSE ResultToDict(t.result)]

\* orchestrator.py 82-89: the Task is built without its result
TaskFromDict(d) ==
    Task(d.id, d.agent_type, d.context_files, d.depends_on, d.status, NoResult)

\* orchestrator.py 65-76
StateToDict(st) ==
    [st EXCEPT !.tasks = [i \in 1..Len(st.tasks) |-> TaskToDict(st.tasks[i])]]

\* orchestrator.py 78-102
StateFromDict(data) ==
    SwarmState(data.session_id,
               data.architecture,
               [i \in 1..Len(data.tasks) |-> TaskFromDict(data.tasks[i])],
               data.completed_summaries,
               data.blockers)

\* SaveState with a fault: a record that exists is not written again.
SaveStateOnce(dk, st) ==
    IF st = NoSession \/ dk[st.session_id] # NoRecord THEN dk
    ELSE [dk EXCEPT ![st.session_id] = StateToDict(st)]

\* orchestrator.py 139-144: the workspace after _save_state
SaveState(dk, st) ==
    IF st = NoSession THEN dk ELSE [dk EXCEPT ![st.session_id] = StateToDict(st)]

\* orchestrator.py 146-152: None when the file does not exist
LoadState(dk, session_id) ==
    IF dk[session_id] = NoRecord THEN NoSession ELSE StateFromDict(dk[session_id])

-----------------------------------------------------------------------------
(* orchestrator.py: Orchestrator.invoke_agent *)

SummaryCap == 20
RecentCount == 5

LastN(s, n) == SubSeq(s, Max(1, Len(s) - n + 1), Len(s))

\* agents/registry.py 25-35
Registered == {"coder", "reviewer", "security", "tester", "docs",
               "architect", "debugger", "mobile_ui", "aws"}

\* RecentContext with a fault: the oldest five digests instead of the newest.
RecentContextOldest(st) ==
    IF st # NoSession /\ st.completed_summaries # <<>>
    THEN SubSeq(st.completed_summaries, 1, Min(RecentCount, Len(st.completed_summaries)))
    ELSE <<>>

\* orchestrator.py 226-232: the recent-activity context, none without history
RecentContext(st) ==
    IF st # NoSession /\ st.completed_summaries # <<>>
    THEN LastN(st.completed_summaries, RecentCount)
    ELSE <<>>

\* PushSummary with a fault: once the cap is reached the newest are dropped.
PushSummaryKeepFirst(summaries, r) ==
    LET appended == Append(summaries, ToSummaryString(r))
    IN IF Len(appended) > SummaryCap THEN SubSeq(appended, 1, SummaryCap) ELSE appended

\* orchestrator.py 244-248: append the digest, keep the last 20
PushSummary(summaries, r) ==
    LET appended == Append(summaries, ToSummaryString(r))
    IN IF Len(appended) > SummaryCap THEN LastN(appended, SummaryCap) ELSE appended

\* PushBlocker with a fault: every unsuccessful Result leaves an entry.
PushBlockerOnFailure(blockers, kind, r) ==
    IF ~r.success THEN Append(blockers, <<kind, r.block_reason>>) ELSE blockers

\* orchestrator.py 250-251: f"{agent_type.value}: {result.block_reason}"
PushBlocker(blockers, kind, r) ==
    IF Truthy(r.blocked) THEN Append(blockers, <<kind, r.block_reason>>) ELSE blockers

\* RecordResult with a fault: the first pending task of the kind that was
\* invoked is completed with the Result, as if the plan executor had run it.
RecordResultOnTask(st, kind, r) ==
    IF st = NoSession THEN st
    ELSE LET open == {i \in 1..Len(st.tasks) :
                        st.tasks[i].agent_type = kind /\ st.tasks[i].status = "pending"}
             tasks == IF open = {} THEN st.tasks
                      ELSE LET i == CHOOSE i \in open : \A j \in open : i <= j
                           IN [st.tasks EXCEPT ![i].status = "completed", ![i].result = r]
         IN [st EXCEPT !.tasks = tasks,
                       !.completed_summaries = PushSummary(@, r),
                       !.blockers = PushBlocker(@, kind, r)]

\* orchestrator.py 241-251: the session after the Gateway returned r
RecordResult(st, kind, r) ==
    IF st = NoSession THEN st
    ELSE [st EXCEPT !.completed_summaries = PushSummary(@, r),
                    !.blockers = PushBlocker(@, kind, r)]

\* The arguments of a Gateway invocation.
NoInv == [kind |-> "none", context_files |-> {}, recent |-> <<>>]

Invocation(kind, context_files, st) ==
    [kind |-> kind, context_files |-> context_files, recent |-> RecentContext(st)]

-----------------------------------------------------------------------------
(* The plan executor's world: one process, the workspace, and a session     *)
(* whose plan is already on disk when the process starts.                   *)

SessionIds == {"20261103_101500", "20261103_101501"}
PlanSession == "20261103_101500"

\* f"task_{n:03d}" for the tasks of the plan; task_009 names no task of it.
PlanIds == <<"task_001", "task_002", "task_003">>
DanglingId == "task_009"
DepIds == {PlanIds[i] : i \in 1..Len(PlanIds)} \cup {DanglingId}

MaxEdges == 3
MaxCalls == 2
MaxCrashes == 1
MaxOps == 3

\* A call of the API: its number, the operation, how it ended (or that it is
\* running), whether a write of the record failed in it, and its argument.
Call(n, op, outcome, save_failed, arg) ==
    [n |-> n, op |-> op, outcome |-> outcome, save_failed |-> save_failed, arg |-> arg]

\* The elements of a set of strings as a list.
RECURSIVE SetToSeq(_)
SetToSeq(S) ==
    IF S = {} THEN <<>>
    ELSE LET x == CHOOSE y \in S : TRUE IN <<x>> \o SetToSeq(S \ {x})

\* The dependency edges of a plan: pairs <<task index, dependency id>>.
EdgeSets ==
    {E \in SUBSET ((1..Len(PlanIds)) \X DepIds) : Cardinality(E) <= MaxEdges}

KindPlans == {<<"coder", "security", "tester">>, <<"coder", "refactor", "tester">>}

HintsOf(i) == IF i = 3 THEN <<"docs/plan.md">> ELSE <<>>

\* A plan as plan_feature or a caller of the API leaves it: every task pending.
PlanTasks(E, kinds) ==
    [i \in 1..Len(PlanIds) |->
        Task(PlanIds[i], kinds[i], HintsOf(i),
             SetToSeq({d \in DepIds : <<i, d>> \in E}), "pending", NoResult)]

EmptyDisk == [sid \in SessionIds |-> NoRecord]

\* The Results the plan executor's invocations come back with.
SchedCollabs ==
    {Collab("exit0", Output(NotJson,
                [NoJsonBlock EXCEPT !.present = TRUE, !.valid = TRUE,
                                    !.files_changed = <<"a.py">>],
                NoSummaryBlock)),
     Collab("timeout", PlainText),
     Collab("exit0", Output(NotJson, NoJsonBlock,
                [present |-> TRUE,
                 lines |-> <<Line(TRUE, "blocked", " yes"),
                             Line(TRUE, "Block Reason", " hardcoded secret found")>>]))}

GatewayResults(kind) == {Invoke(kind, c) : c \in SchedCollabs}

-----------------------------------------------------------------------------
(* orchestrator.py: Orchestrator.execute_plan, step by step *)

\* DepsMet with a fault: an identifier that names no task is passed over.
DepsMetKnownOnly(tasks, task) ==
    \A k \in 1..Len(task.depends_on) :
        (\E j \in 1..Len(tasks) : tasks[j].id = task.depends_on[k])
        => \E j \in 1..Len(tasks) :
            tasks[j].id = task.depends_on[k] /\ tasks[j].status = "completed"

\* DepsMet with a fault: one completed dependency is enough.
DepsMetAny(tasks, task) ==
    \/ task.depends_on = <<>>
    \/ \E k \in 1..Len(task.depends_on) :
        \E j \in 1..Len(tasks) :
            tasks[j].id = task.depends_on[k] /\ tasks[j].status = "completed"

\* DepsMet with a fault: only the statuses the record held when the process
\* loaded the session count, so a dependency completed since is not seen.
DepsMetAsLoaded(tasks, task) ==
    \A k \in 1..Len(task.depends_on) :
        \E j \in 1..Len(tasks) :
            /\ tasks[j].id = task.depends_on[k]
            /\ tasks[j].status = "completed"
            /\ tasks[j].result = NoResult

\* DepsMet with a fault: a dependency that has ended in any way counts as met.
DepsMetEnded(tasks, task) ==
    \A k \in 1..Len(task.depends_on) :
        \E j \in 1..Len(tasks) :
            /\ tasks[j].id = task.depends_on[k]
            /\ tasks[j].status \in {"completed", "failed", "blocked"}

\* orchestrator.py 436-439
DepsMet(tasks, task) ==
    \A k \in 1..Len(task.depends_on) :
        \E j \in 1..Len(tasks) :
            tasks[j].id = task.depends_on[k] /\ tasks[j].status = "completed"

\* orchestrator.py 453-463: list(set(context + task.context_files))
Range(s) == {s[k] : k \in 1..Len(s)}

ContextFiles(tasks, task) ==
    UNION {Range(tasks[j].result.files_changed) \cup Range(tasks[j].result.files_created) :
            j \in {x \in 1..Len(tasks) :
                    tasks[x].status = "completed" /\ tasks[x].result # NoResult}}
    \cup Range(task.context_files)

\* StatusOf with a fault: the blocked flag does not override.
StatusOfSuccessOnly(r) == IF r.success THEN "completed" ELSE "failed"

\* orchestrator.py 467-470
StatusOf(r) ==
    IF Truthy(r.blocked) THEN "blocked"
    ELSE IF r.success THEN "completed" ELSE "failed"

CurTask == state.tasks[exec_i]

\* IsPending with a fault: a failed task is taken up again.
IsPendingOrFailed(task) == task.status \in {"pending", "failed"}

\* orchestrator.py 445: only a pending task is executed
IsPending(task) == task.status = "pending"

\* NextTask with a fault: the loop does not move on.
NextTaskStay(i) == i

\* NextTask with a fault: past the first task the loop steps back, so a task
\* already visited is visited again in the same call.
NextTaskRevisit(i) == IF i > 1 THEN i - 1 ELSE i + 1

\* orchestrator.py 434: the for loop moves to the next task of the list
NextTask(i) == i + 1

\* orchestrator.py 429-432
ExecBegin ==
    /\ exec_pc = "idle"
    /\ state # NoSession
    /\ state.tasks # <<>>
    /\ calls < MaxCalls
    /\ last.n < MaxOps
    /\ exec_pc' = "loop"
    /\ exec_i' = 1
    /\ exec_results' = <<>>
    /\ calls' = calls + 1
    /\ last' = Call(last.n + 1, "execute_plan", "running", FALSE, "")
    /\ UNCHANGED <<state, disk, inv, exec_ret, crashes>>
    /\ UNCHANGED <<gw_vars, pipe_vars, task_counter, log>>

\* orchestrator.py 441-443
ExecSkipUnmet ==
    /\ exec_pc = "loop"
    /\ exec_i <= Len(state.tasks)
    /\ ~DepsMet(state.tasks, CurTask)
    /\ exec_i' = NextTask(exec_i)
    /\ UNCHANGED <<state, disk, inv, exec_pc, exec_ret, exec_results, calls, crashes>>
    /\ UNCHANGED <<gw_vars, pipe_vars, api_vars>>

\* orchestrator.py 445-446
ExecSkipNotPending ==
    /\ exec_pc = "loop"
    /\ exec_i <= Len(state.tasks)
    /\ DepsMet(state.tasks, CurTask)
    /\ ~IsPending(CurTask)
    /\ exec_i' = NextTask(exec_i)
    /\ UNCHANGED <<state, disk, inv, exec_pc, exec_ret, exec_results, calls, crashes>>
    /\ UNCHANGED <<gw_vars, pipe_vars, api_vars>>

\* ExecStart with a fault: the Gateway is called before the running status
\* is written.
ExecStartInvokeFirst ==
    /\ exec_pc = "loop"
    /\ exec_i <= Len(state.tasks)
    /\ DepsMet(state.tasks, CurTask)
    /\ IsPending(CurTask)
    /\ LET st == [state EXCEPT !.tasks[exec_i].status = "running"]
       IN /\ state' = st
          /\ inv' = Invocation(CurTask.agent_type, ContextFiles(st.tasks, CurTask), st)
    /\ exec_pc' = "invoking"
    /\ UNCHANGED <<disk, exec_i, exec_ret, exec_results, calls, crashes>>
    /\ UNCHANGED <<gw_vars, pipe_vars, api_vars>>

\* orchestrator.py 448-464: running, saved, and the Gateway is called
ExecStart ==
    /\ exec_pc = "loop"
    /\ exec_i <= Len(state.tasks)
    /\ DepsMet(state.tasks, CurTask)
    /\ IsPending(CurTask)
    /\ LET st == [state EXCEPT !.tasks[exec_i].status = "running"]
       IN /\ state' = st
          /\ disk' = SaveState(disk, st)
          /\ inv' = Invocation(CurTask.agent_type, ContextFiles(st.tasks, CurTask), st)
    /\ exec_pc' = "invoking"
    /\ UNCHANGED <<exec_i, exec_ret, exec_results, calls, crashes>>
    /\ UNCHANGED <<gw_vars, pipe_vars, api_vars>>

\* registry.py 56-58 under orchestrator.py 219: no agent of that kind, the
\* ValueError leaves invoke_agent and execute_plan
ExecGatewayRaise ==
    /\ exec_pc = "invoking"
    /\ CurTask.agent_type \notin Registered
    /\ exec_pc' = "idle"
    /\ last' = [last EXCEPT !.outcome = "raised"]
    /\ UNCHANGED <<state, disk, inv, exec_i, exec_ret, exec_results, calls, crashes>>
    /\ UNCHANGED <<gw_vars, pipe_vars, task_counter, log>>

\* orchestrator.py 235-255: the collaborator returned; digest, blocker, save
ExecGatewayReturn ==
    /\ exec_pc = "invoking"
    /\ CurTask.agent_type \in Registered
    /\ \E r \in GatewayResults(CurTask.agent_type) :
        LET st == RecordResult(state, CurTask.agent_type, r)
        IN /\ state' = st
           /\ disk' = SaveState(disk, st)
           /\ exec_ret' = r
    /\ exec_pc' = "attach"
    /\ UNCHANGED <<inv, exec_i, exec_results, calls, crashes>>
    /\ UNCHANGED <<gw_vars, pipe_vars, api_vars>>

\* ExecAttach with a fault: the loop goes on before the Result and the
\* status are attached to the task.
ExecAttachLater ==
    /\ exec_pc = "attach"
    /\ exec_results' = (CurTask.id :> exec_ret) @@ exec_results
    /\ exec_ret' = NoResult
    /\ exec_i' = NextTask(exec_i)
    /\ exec_pc' = "loop"
    /\ UNCHANGED <<state, disk, inv, calls, crashes>>
    /\ UNCHANGED <<gw_vars, pipe_vars, api_vars>>

\* orchestrator.py 466-474
ExecAttach ==
    /\ exec_pc = "attach"
    /\ LET st == [state EXCEPT !.tasks[exec_i].result = exec_ret,
                               !.tasks[exec_i].status = StatusOf(exec_ret)]
       IN /\ state' = st
          /\ disk' = SaveState(disk, st)
    /\ exec_results' = (CurTask.id :> exec_ret) @@ exec_results
    /\ exec_ret' = NoResult
    /\ exec_i' = NextTask(exec_i)
    /\ exec_pc' = "loop"
    /\ UNCHANGED <<inv, calls, crashes>>
    /\ UNCHANGED <<gw_vars, pipe_vars, api_vars>>

\* orchestrator.py 476
ExecEnd ==
    /\ exec_pc = "loop"
    /\ exec_i > Len(state.tasks)
    /\ exec_pc' = "idle"
    /\ last' = [last EXCEPT !.outcome = "returned"]
    /\ UNCHANGED <<state, disk, inv, exec_i, exec_ret, exec_results, calls, crashes>>
    /\ UNCHANGED <<gw_vars, pipe_vars, task_counter, log>>

\* orchestrator.py 172-178: the session of the record, or no change
ResumeSession(sid) ==
    /\ exec_pc = "idle"
    /\ state' = IF LoadState(disk, sid) # NoSession THEN LoadState(disk, sid) ELSE state
    /\ UNCHANGED <<disk, inv, exec_pc, exec_i, exec_ret, exec_results, calls, crashes>>
    /\ UNCHANGED <<gw_vars, pipe_vars, api_vars>>

\* The process dies; a new one is constructed (orchestrator.py 113-132).
Crash ==
    /\ crashes < MaxCrashes
    /\ state # NoSession
    /\ crashes' = crashes + 1
    /\ state' = NoSession
    /\ inv' = NoInv
    /\ exec_pc' = "idle"
    /\ exec_i' = 1
    /\ exec_ret' = NoResult
    /\ exec_results' = <<>>
    /\ task_counter' = 0
    /\ last' = [last EXCEPT !.outcome = IF @ = "running" THEN "killed" ELSE @]
    /\ UNCHANGED <<disk, calls, log>>
    /\ UNCHANGED <<gw_vars, pipe_vars>>

-----------------------------------------------------------------------------
GatewayIdle ==
    /\ gw_pc = "off"
    /\ gw_kind = "none"
    /\ gw_collab = Collab("none", PlainText)
    /\ gw_result = NoResult
    /\ agent = NoAgent

NoWorker == [pc |-> "off", result |-> NoResult, slice |-> <<>>, snap |-> NoRecord]

PipelineIdle ==
    /\ cfg = [is_none |-> TRUE]
    /\ pipe_pc = "off"
    /\ pipe_results = <<>>
    /\ worker = [n \in {"security", "review"} |-> NoWorker]
    /\ invoked = {}
    /\ writes = {}

\* No call of the API yet.
NoCall == [n |-> 0, op |-> "none", outcome |-> "none", save_failed |-> FALSE, arg |-> ""]

NoLog == [sid \in SessionIds |-> <<>>]

\* orchestrator.py 128-132: a new Orchestrator, before any call
ApiIdle ==
    /\ task_counter = 0
    /\ last = NoCall
    /\ log = NoLog

Init ==
    /\ GatewayIdle
    /\ PipelineIdle
    /\ ApiIdle
    /\ state = NoSession
    /\ \E E \in EdgeSets, kinds \in KindPlans :
        disk = [EmptyDisk EXCEPT ![PlanSession] =
                    StateToDict(SwarmState(PlanSession, PyNone, PlanTasks(E, kinds),
                                           <<>>, <<>>))]
    /\ inv = NoInv
    /\ exec_pc = "idle"
    /\ exec_i = 1
    /\ exec_ret = NoResult
    /\ exec_results = <<>>
    /\ calls = 0
    /\ crashes = 0

Next ==
    \/ ExecBegin
    \/ ExecSkipUnmet
    \/ ExecSkipNotPending
    \/ ExecStart
    \/ ExecGatewayRaise
    \/ ExecGatewayReturn
    \/ ExecAttach
    \/ ExecEnd
    \/ \E sid \in SessionIds : ResumeSession(sid)
    \/ Crash

Spec == Init /\ [][Next]_vars

-----------------------------------------------------------------------------
(* Claims about the plan executor and the durable record, under Spec *)

Tasks(st) == {st.tasks[i] : i \in 1..Len(st.tasks)}

\* The fields of a Result that a reader of the session sees.
SameResult(a, b) ==
    IF a = NoResult \/ b = NoResult THEN a = NoResult /\ b = NoResult
    ELSE /\ a.success = b.success
         /\ a.blocked = b.blocked
         /\ a.block_reason = b.block_reason
         /\ a.files_changed = b.files_changed
         /\ a.files_created = b.files_created

SameSession(a, b) ==
    /\ Len(a.tasks) = Len(b.tasks)
    /\ \A i \in 1..Len(a.tasks) :
        /\ a.tasks[i].status = b.tasks[i].status
        /\ SameResult(a.tasks[i].result, b.tasks[i].result)
    /\ a.completed_summaries = b.completed_summaries
    /\ a.blockers = b.blockers

\* _save_state, then resume_session in a fresh orchestrator.
SavedAndResumed(st) == LoadState(SaveState(disk, st), st.session_id)

\* C1: every reachable session, saved and resumed in a fresh orchestrator,
\* comes back with the same task statuses, the same Result contents, and the
\* same completed_summaries and blockers.
C1_ResumeRoundTrip ==
    state # NoSession => SameSession(SavedAndResumed(state), state)

\* C4: when the Gateway has returned in execute_plan, the Result is attached
\* to the task of the iteration and its status becomes blocked if the Result
\* is blocked, else completed if it succeeded, else failed; no other task
\* changes.
C4_StatusOnReturn ==
    [][(exec_pc = "attach" /\ exec_pc' = "loop") =>
        /\ state'.tasks[exec_i].result = exec_ret
        /\ state'.tasks[exec_i].status =
              (IF Truthy(exec_ret.blocked) THEN "blocked"
               ELSE IF exec_ret.success THEN "completed" ELSE "failed")
        /\ \A j \in 1..Len(state.tasks) :
              j # exec_i => state'.tasks[j] = state.tasks[j]]_vars

\* A blocked Result has been attached and the task is blocked.
C4_Witness ==
    /\ state # NoSession
    /\ exec_pc = "loop"
    /\ \E t \in Tasks(state) :
        t.result # NoResult /\ t.result.blocked = PyTrue /\ t.status = "blocked"

\* A dependency identifier of the task that names no task of the list.
HasDangling(tasks, t) ==
    \E k \in 1..Len(t.depends_on) :
        \A j \in 1..Len(tasks) : tasks[j].id # t.depends_on[k]

DanglingPending(tasks) ==
    \A i \in 1..Len(tasks) : HasDangling(tasks, tasks[i]) => tasks[i].status = "pending"

\* C5: a task with a dependency identifier that names no task of the session
\* is pending, in memory and in the durable record, whatever has run.
C5_DanglingStaysPending ==
    /\ state # NoSession => DanglingPending(state.tasks)
    /\ \A sid \in SessionIds : disk[sid] # NoRecord => DanglingPending(disk[sid].tasks)

\* Two execute_plan calls have ended, every other task is completed, and the
\* task with the dangling dependency is still pending.
C5_Witness ==
    /\ state # NoSession
    /\ exec_pc = "idle"
    /\ calls = 2
    /\ \E i \in 1..Len(state.tasks) :
        /\ HasDangling(state.tasks, state.tasks[i])
        /\ \A j \in 1..Len(state.tasks) : j # i => state.tasks[j].status = "completed"

\* C6: a step that takes a task from pending to running starts the Gateway
\* invocation for it, and at that moment every identifier of its depends_on
\* names a task of the session and every task it names is completed.
C6_RunsOnlyWhenDepsCompleted ==
    [][(state # NoSession /\ state' # NoSession) =>
        \A i \in 1..Len(state.tasks) :
            (/\ Len(state'.tasks) = Len(state.tasks)
             /\ state.tasks[i].status = "pending"
             /\ state'.tasks[i].status = "running")
            => /\ exec_pc' = "invoking"
               /\ inv'.kind = state.tasks[i].agent_type
               /\ \A k \in 1..Len(state.tasks[i].depends_on) :
                    /\ \E t \in Tasks(state) : t.id = state.tasks[i].depends_on[k]
                    /\ \A t \in Tasks(state) :
                          t.id = state.tasks[i].depends_on[k] => t.status = "completed"]_vars

\* A task with two dependencies is running.
C6_Witness ==
    /\ state # NoSession
    /\ exec_pc = "invoking"
    /\ state.tasks[exec_i].status = "running"
    /\ Len(state.tasks[exec_i].depends_on) = 2

NoPending(tasks) == \A i \in 1..Len(tasks) : tasks[i].status # "pending"

\* C13: while no task of the session is pending, a step of execute_plan (its
\* begin included) starts no Gateway invocation and leaves the session, its
\* tasks' statuses and results, completed_summaries, blockers and the durable
\* record as they are; so a second such call changes nothing either.
C13_NothingPendingNothingDone ==
    [][(/\ state # NoSession
        /\ NoPending(state.tasks)
        /\ crashes' = crashes
        /\ (exec_pc = "loop" \/ (exec_pc = "idle" /\ exec_pc' = "loop")))
       => /\ state' = state
          /\ disk' = disk
          /\ inv' = inv
          /\ exec_pc' \in {"loop", "idle"}
          /\ exec_results' = (IF exec_pc = "idle" THEN <<>> ELSE exec_results)]_vars

\* The second execute_plan call of a process has ended on a session with no
\* pending task, and it returned no Result.
C13_Witness ==
    /\ state # NoSession
    /\ exec_pc = "idle"
    /\ calls = 2
    /\ crashes = 0
    /\ NoPending(state.tasks)
    /\ exec_results = <<>>

\* C14: one execute_plan call goes through the task list from the first task
\* on, one task after the other; only the task the loop is at changes, so a
\* task that was visited and skipped stays as it is for the rest of the call
\* whatever completes later; the call returns once the list is exhausted.
C14_OnePassInListOrder ==
    [][/\ (exec_pc = "idle" /\ exec_pc' = "loop") => exec_i' = 1
       /\ (exec_pc \in {"loop", "invoking", "attach"}
              /\ exec_pc' \in {"loop", "invoking", "attach"}) =>
            /\ exec_i' \in {exec_i, exec_i + 1}
            /\ exec_i' = exec_i + 1 => exec_pc' = "loop"
            /\ \A j \in 1..Len(state.tasks) :
                  j # exec_i => state'.tasks[j] = state.tasks[j]
       /\ (exec_pc = "loop" /\ exec_pc' = "idle" /\ crashes' = crashes) =>
            exec_i > Len(state.tasks)]_vars

\* A task skipped in the first call, because the task it depends on comes
\* later in the list and completed only then, is run by the second call.
C14_Witness ==
    /\ state # NoSession
    /\ exec_pc = "invoking"
    /\ calls = 2
    /\ crashes = 0
    /\ \E j \in (exec_i + 1)..Len(state.tasks) :
        /\ state.tasks[j].status = "completed"
        /\ state.tasks[exec_i].depends_on = <<state.tasks[j].id>>

-----------------------------------------------------------------------------
(* The Gateway alone: one invocation, for every reply of the collaborator *)

OrchestratorIdle ==
    /\ state = NoSession
    /\ disk = EmptyDisk
    /\ inv = NoInv
    /\ exec_pc = "off"
    /\ exec_i = 1
    /\ exec_ret = NoResult
    /\ exec_results = <<>>
    /\ calls = 0
    /\ crashes = 0

GatewayInit ==
    /\ gw_pc = "ready"
    /\ gw_kind \in {"coder", "security"}
    /\ gw_collab \in Collabs
    /\ gw_result = NoResult
    /\ agent = NoAgent
    /\ OrchestratorIdle
    /\ PipelineIdle
    /\ ApiIdle

\* base.py 126-195 (and orchestrator.py 235-255, which returns it unchanged)
GatewayInvoke ==
    /\ gw_pc = "ready"
    /\ gw_result' = Invoke(gw_kind, gw_collab)
    /\ gw_pc' = "done"
    /\ UNCHANGED <<gw_kind, gw_collab, agent>>
    /\ UNCHANGED <<state, disk, inv, exec_vars, pipe_vars, api_vars>>

GatewayNext == GatewayInvoke

SpecGateway == GatewayInit /\ [][GatewayNext]_vars

\* C2: every Result the Gateway returns that is blocked is not a success,
\* whatever the exit status and the reply.
C2_BlockedIsNotSuccess ==
    gw_pc = "done" => (Truthy(gw_result.blocked) => gw_result.success = FALSE)

\* The collaborator exited with status 0 and its reply says blocked.
C2_Witness ==
    /\ gw_pc = "done"
    /\ gw_collab.outcome = "exit0"
    /\ Truthy(gw_result.blocked)

\* C3: every Result the Gateway returns that is blocked carries a block_reason
\* that is a non-empty string, whichever form of the reply set the flag.
C3_BlockedHasReason ==
    gw_pc = "done" => (Truthy(gw_result.blocked) => NonEmptyStr(gw_result.block_reason))

\* C16: when the collaborator times out, is not installed or crashes, the
\* Gateway still returns a Result, and that Result is not a success; for a
\* timeout it is not blocked either, so the status execute_plan gives the
\* owning task is failed.
C16_CollaboratorFailureIsAResult ==
    (gw_pc = "done" /\ gw_collab.outcome \in {"timeout", "not_found", "crash"})
    => /\ gw_result # NoResult
       /\ gw_result.success = FALSE
       /\ gw_collab.outcome = "timeout" =>
            /\ ~Truthy(gw_result.blocked)
            /\ StatusOf(gw_result) = "failed"

\* The Result of an invocation that timed out.
C16_Witness ==
    /\ gw_pc = "done"
    /\ gw_collab.outcome = "timeout"
    /\ gw_result.success = FALSE
    /\ gw_result.blocked = PyFalse

-----------------------------------------------------------------------------
(* orchestrator.py: Orchestrator.run_pipeline, with its two pool workers *)

ReviewStages == {"security", "review"}

\* orchestrator.py 294, 298: the agent kind of a review stage
KindOfStage(n) == IF n = "review" THEN "reviewer" ELSE n

\* config.agents.get(name): no entry, or an AgentConfig that is enabled or not
AgentConfigs ==
    {[security |-> "absent", reviewer |-> "absent", tester |-> "absent"],
     [security |-> "disabled", reviewer |-> "absent", tester |-> "absent"],
     [security |-> "enabled", reviewer |-> "disabled", tester |-> "absent"],
     [security |-> "absent", reviewer |-> "enabled", tester |-> "disabled"],
     [security |-> "enabled", reviewer |-> "absent", tester |-> "enabled"]}

PipelineCalls ==
    [skip_security : BOOLEAN, skip_tests : BOOLEAN, skip_review : BOOLEAN,
     parallel_reviews : BOOLEAN, require_security_pass : BOOLEAN,
     require_tests : BOOLEAN, agents : AgentConfigs]

\* `config is None or config.enabled`
Enabled(c, name) == c.agents[name] \in {"absent", "enabled"}

\* orchestrator.py 290-298: review_tasks, in order
ReviewTasks(c) ==
    (IF ~c.skip_security /\ Enabled(c, "security") THEN <<"security">> ELSE <<>>)
    \o (IF ~c.skip_review /\ Enabled(c, "reviewer") THEN <<"review">> ELSE <<>>)

\* What the thread `who` writes when invoke_agent records r (lines 242-253).
WritesOf(who, st, r) ==
    IF st = NoSession THEN {}
    ELSE {<<who, "completed_summaries">>, <<who, "record">>}
         \cup (IF Truthy(r.blocked) THEN {<<who, "blockers">>} ELSE {})

\* AfterCoder with a fault: only a blocked coder stops the pipeline.
AfterCoderBlockedOnly(c, r) ==
    IF Truthy(r.blocked) THEN "returned"
    ELSE IF ReviewTasks(c) # <<>> /\ c.parallel_reviews THEN "submit"
    ELSE "sequential"

\* orchestrator.py 281-300: where run_pipeline goes once the coder returned
AfterCoder(c, r) ==
    IF ~r.success THEN "returned"
    ELSE IF ReviewTasks(c) # <<>> /\ c.parallel_reviews THEN "submit"
    ELSE "sequential"

\* SecurityStops with a fault: the blocked flag is not looked at.
SecurityStopsNever(c, results) == FALSE

\* orchestrator.py 328-331
SecurityStops(c, results) ==
    /\ "security" \in DOMAIN results
    /\ Truthy(results["security"].blocked)
    /\ c.require_security_pass

\* TesterRuns with a fault: the tester's configuration entry is not looked at.
TesterRunsWhateverConfig(c) == ~c.skip_tests /\ c.require_tests

\* orchestrator.py 334-336
TesterRuns(c) == ~c.skip_tests /\ c.require_tests /\ Enabled(c, "tester")

\* AllCollected with a fault: the first completed future ends the wait.
AnyCollected(c, results) ==
    \E k \in 1..Len(ReviewTasks(c)) : ReviewTasks(c)[k] \in DOMAIN results

\* orchestrator.py 313-317 and the end of the `with` block: every future
\* has been yielded by as_completed
AllCollected(c, results) ==
    \A k \in 1..Len(ReviewTasks(c)) : ReviewTasks(c)[k] \in DOMAIN results

\* orchestrator.py 274-278: run_pipeline is called, the coder is invoked
PipeStart ==
    /\ pipe_pc = "ready"
    /\ pipe_pc' = "coder"
    /\ invoked' = invoked \cup {"coder"}
    /\ UNCHANGED <<cfg, pipe_results, worker, writes, state, disk, inv>>
    /\ UNCHANGED <<gw_vars, exec_vars, api_vars>>

\* orchestrator.py 279-300: the coder's Result is recorded and looked at
PipeCoderReturn ==
    /\ pipe_pc = "coder"
    /\ \E r \in GatewayResults("coder") :
        LET st == RecordResult(state, "coder", r)
        IN /\ state' = st
           /\ disk' = SaveState(disk, st)
           /\ writes' = writes \cup WritesOf("main", state, r)
           /\ pipe_results' = ("coder" :> r)
           /\ pipe_pc' = AfterCoder(cfg, r)
    /\ UNCHANGED <<cfg, worker, invoked, inv>>
    /\ UNCHANGED <<gw_vars, exec_vars, api_vars>>

\* orchestrator.py 304-311: executor.submit for the next review task
PipeSubmit ==
    /\ pipe_pc = "submit"
    /\ \E k \in 1..Len(ReviewTasks(cfg)) :
        LET n == ReviewTasks(cfg)[k]
        IN /\ worker[n].pc = "off"
           /\ \A j \in 1..(k - 1) : worker[ReviewTasks(cfg)[j]].pc # "off"
           /\ worker' = [worker EXCEPT ![n].pc = "queued"]
           /\ pipe_pc' = IF k = Len(ReviewTasks(cfg)) THEN "collect" ELSE "submit"
    /\ UNCHANGED <<cfg, pipe_results, invoked, writes, state, disk, inv>>
    /\ UNCHANGED <<gw_vars, exec_vars, api_vars>>

\* orchestrator.py 201-239 in a pool thread: the collaborator is called
WorkerStart(n) ==
    /\ worker[n].pc = "queued"
    /\ worker' = [worker EXCEPT ![n].pc = "invoking"]
    /\ invoked' = invoked \cup {n}
    /\ UNCHANGED <<cfg, pipe_pc, pipe_results, writes, state, disk, inv>>
    /\ UNCHANGED <<gw_vars, exec_vars, api_vars>>

\* orchestrator.py 242-244 in a pool thread: the digest is appended
WorkerReturn(n) ==
    /\ worker[n].pc = "invoking"
    /\ \E r \in GatewayResults(KindOfStage(n)) :
        IF state = NoSession
        THEN /\ worker' = [worker EXCEPT ![n].pc = "done", ![n].result = r]
             /\ UNCHANGED <<state, writes>>
        ELSE /\ worker' = [worker EXCEPT ![n].pc = "appended", ![n].result = r]
             /\ state' = [state EXCEPT !.completed_summaries =
                                            Append(@, ToSummaryString(r))]
             /\ writes' = writes \cup {<<n, "completed_summaries">>}
    /\ UNCHANGED <<cfg, pipe_pc, pipe_results, invoked, disk, inv>>
    /\ UNCHANGED <<gw_vars, exec_vars, api_vars>>

\* orchestrator.py 247: the history is within the cap
WorkerTrimSkip(n) ==
    /\ worker[n].pc = "appended"
    /\ Len(state.completed_summaries) <= SummaryCap
    /\ worker' = [worker EXCEPT ![n].pc = "trimmed"]
    /\ UNCHANGED <<cfg, pipe_pc, pipe_results, invoked, writes, state, disk, inv>>
    /\ UNCHANGED <<gw_vars, exec_vars, api_vars>>

\* orchestrator.py 247-248: the right-hand side, the last 20, is read
WorkerTrimRead(n) ==
    /\ worker[n].pc = "appended"
    /\ Len(state.completed_summaries) > SummaryCap
    /\ worker' = [worker EXCEPT ![n].pc = "trimming",
                                ![n].slice = LastN(state.completed_summaries, SummaryCap)]
    /\ UNCHANGED <<cfg, pipe_pc, pipe_results, invoked, writes, state, disk, inv>>
    /\ UNCHANGED <<gw_vars, exec_vars, api_vars>>

\* orchestrator.py 248: the attribute is assigned
WorkerTrimWrite(n) ==
    /\ worker[n].pc = "trimming"
    /\ state' = [state EXCEPT !.completed_summaries = worker[n].slice]
    /\ worker' = [worker EXCEPT ![n].pc = "trimmed", ![n].slice = <<>>]
    /\ writes' = writes \cup {<<n, "completed_summaries">>}
    /\ UNCHANGED <<cfg, pipe_pc, pipe_results, invoked, disk, inv>>
    /\ UNCHANGED <<gw_vars, exec_vars, api_vars>>

\* orchestrator.py 250-251
WorkerBlocker(n) ==
    /\ worker[n].pc = "trimmed"
    /\ state' = [state EXCEPT !.blockers = PushBlocker(@, KindOfStage(n), worker[n].result)]
    /\ writes' = writes \cup (IF Truthy(worker[n].result.blocked)
                              THEN {<<n, "blockers">>} ELSE {})
    /\ worker' = [worker EXCEPT ![n].pc = "saving"]
    /\ UNCHANGED <<cfg, pipe_pc, pipe_results, invoked, disk, inv>>
    /\ UNCHANGED <<gw_vars, exec_vars, api_vars>>

\* orchestrator.py 144: json.dumps(self.state.to_dict()) reads the session
WorkerSnapshot(n) ==
    /\ worker[n].pc = "saving"
    /\ worker' = [worker EXCEPT ![n].pc = "writing", ![n].snap = StateToDict(state)]
    /\ UNCHANGED <<cfg, pipe_pc, pipe_results, invoked, writes, state, disk, inv>>
    /\ UNCHANGED <<gw_vars, exec_vars, api_vars>>

\* orchestrator.py 144: state_file.write_text(...) replaces the record
WorkerWrite(n) ==
    /\ worker[n].pc = "writing"
    /\ disk' = [disk EXCEPT ![worker[n].snap.session_id] = worker[n].snap]
    /\ writes' = writes \cup {<<n, "record">>}
    /\ worker' = [worker EXCEPT ![n].pc = "done", ![n].snap = NoRecord]
    /\ UNCHANGED <<cfg, pipe_pc, pipe_results, invoked, state, inv>>
    /\ UNCHANGED <<gw_vars, exec_vars, api_vars>>

\* orchestrator.py 313-317: as_completed yields a future that is done
PipeCollect ==
    /\ pipe_pc = "collect"
    /\ \E n \in ReviewStages :
        /\ worker[n].pc = "done"
        /\ n \notin DOMAIN pipe_results
        /\ pipe_results' = (n :> worker[n].result) @@ pipe_results
    /\ UNCHANGED <<cfg, pipe_pc, worker, invoked, writes, state, disk, inv>>
    /\ UNCHANGED <<gw_vars, exec_vars, api_vars>>

\* orchestrator.py 313, 302: the loop and the `with` block end
PipeJoin ==
    /\ pipe_pc = "collect"
    /\ AllCollected(cfg, pipe_results)
    /\ pipe_pc' = "check"
    /\ UNCHANGED <<cfg, pipe_results, worker, invoked, writes, state, disk, inv>>
    /\ UNCHANGED <<gw_vars, exec_vars, api_vars>>

\* The review task the sequential loop is at: the first without a Result.
SeqPending ==
    {k \in 1..Len(ReviewTasks(cfg)) :
        /\ ReviewTasks(cfg)[k] \notin DOMAIN pipe_results
        /\ \A j \in 1..(k - 1) : ReviewTasks(cfg)[j] \in DOMAIN pipe_results}

\* orchestrator.py 319-325: the next review is invoked by the caller's thread
PipeSeqStart ==
    /\ pipe_pc = "sequential"
    /\ \E k \in SeqPending :
        /\ ReviewTasks(cfg)[k] \notin invoked
        /\ invoked' = invoked \cup {ReviewTasks(cfg)[k]}
    /\ UNCHANGED <<cfg, pipe_pc, pipe_results, worker, writes, state, disk, inv>>
    /\ UNCHANGED <<gw_vars, exec_vars, api_vars>>

\* orchestrator.py 321-325: its Result is recorded
PipeSeqReturn ==
    /\ pipe_pc = "sequential"
    /\ \E k \in SeqPending :
        LET n == ReviewTasks(cfg)[k]
        IN /\ n \in invoked
           /\ \E r \in GatewayResults(KindOfStage(n)) :
                LET st == RecordResult(state, KindOfStage(n), r)
                IN /\ state' = st
                   /\ disk' = SaveState(disk, st)
                   /\ writes' = writes \cup WritesOf("main", state, r)
                   /\ pipe_results' = (n :> r) @@ pipe_results
    /\ UNCHANGED <<cfg, pipe_pc, worker, invoked, inv>>
    /\ UNCHANGED <<gw_vars, exec_vars, api_vars>>

\* orchestrator.py 319: the sequential loop ends
PipeSeqEnd ==
    /\ pipe_pc = "sequential"
    /\ SeqPending = {}
    /\ pipe_pc' = "check"
    /\ UNCHANGED <<cfg, pipe_results, worker, invoked, writes, state, disk, inv>>
    /\ UNCHANGED <<gw_vars, exec_vars, api_vars>>

\* orchestrator.py 328-331: security blocked and the policy asks for a pass
PipeSecurityBlocked ==
    /\ pipe_pc = "check"
    /\ SecurityStops(cfg, pipe_results)
    /\ pipe_pc' = "returned"
    /\ UNCHANGED <<cfg, pipe_results, worker, invoked, writes, state, disk, inv>>
    /\ UNCHANGED <<gw_vars, exec_vars, api_vars>>

\* orchestrator.py 334-342: the tester is invoked
PipeTesterStart ==
    /\ pipe_pc = "check"
    /\ ~SecurityStops(cfg, pipe_results)
    /\ TesterRuns(cfg)
    /\ pipe_pc' = "tester"
    /\ invoked' = invoked \cup {"tester"}
    /\ UNCHANGED <<cfg, pipe_results, worker, writes, state, disk, inv>>
    /\ UNCHANGED <<gw_vars, exec_vars, api_vars>>

\* orchestrator.py 334-346: no tester stage
PipeNoTester ==
    /\ pipe_pc = "check"
    /\ ~SecurityStops(cfg, pipe_results)
    /\ ~TesterRuns(cfg)
    /\ pipe_pc' = "returned"
    /\ UNCHANGED <<cfg, pipe_results, worker, invoked, writes, state, disk, inv>>
    /\ UNCHANGED <<gw_vars, exec_vars, api_vars>>

\* orchestrator.py 343-346
PipeTesterReturn ==
    /\ pipe_pc = "tester"
    /\ \E r \in GatewayResults("tester") :
        LET st == RecordResult(state, "tester", r)
        IN /\ state' = st
           /\ disk' = SaveState(disk, st)
           /\ writes' = writes \cup WritesOf("main", state, r)
           /\ pipe_results' = ("tester" :> r) @@ pipe_results
    /\ pipe_pc' = "returned"
    /\ UNCHANGED <<cfg, worker, invoked, inv>>
    /\ UNCHANGED <<gw_vars, exec_vars, api_vars>>

\* A digest already in the history when run_pipeline is called.
OldDigest == ToSummaryString(Invoke("docs", Collab("exit0", PlainText)))

\* The session of the process when run_pipeline is called: none, a new one,
\* or one whose history is one entry short of the cap.
PipelineSessions ==
    {NoSession}
    \cup {SwarmState(PlanSession, PyNone, <<>>, [k \in 1..h |-> OldDigest], <<>>) :
            h \in {0, SummaryCap - 1}}

PipelineInit ==
    /\ GatewayIdle
    /\ ApiIdle
    /\ cfg \in PipelineCalls
    /\ pipe_pc = "ready"
    /\ pipe_results = <<>>
    /\ worker = [n \in ReviewStages |-> NoWorker]
    /\ invoked = {}
    /\ writes = {}
    /\ state \in PipelineSessions
    /\ disk = SaveState(EmptyDisk, state)
    /\ inv = NoInv
    /\ exec_pc = "off"
    /\ exec_i = 1
    /\ exec_ret = NoResult
    /\ exec_results = <<>>
    /\ calls = 0
    /\ crashes = 0

PipelineNext ==
    \/ PipeStart
    \/ PipeCoderReturn
    \/ PipeSubmit
    \/ \E n \in ReviewStages : WorkerStart(n)
    \/ \E n \in ReviewStages : WorkerReturn(n)
    \/ \E n \in ReviewStages : WorkerTrimSkip(n)
    \/ \E n \in ReviewStages : WorkerTrimRead(n)
    \/ \E n \in ReviewStages : WorkerTrimWrite(n)
    \/ \E n \in ReviewStages : WorkerBlocker(n)
    \/ \E n \in ReviewStages : WorkerSnapshot(n)
    \/ \E n \in ReviewStages : WorkerWrite(n)
    \/ PipeCollect
    \/ PipeJoin
    \/ PipeSeqStart
    \/ PipeSeqReturn
    \/ PipeSeqEnd
    \/ PipeSecurityBlocked
    \/ PipeTesterStart
    \/ PipeNoTester
    \/ PipeTesterReturn

SpecPipeline == PipelineInit /\ [][PipelineNext]_vars

-----------------------------------------------------------------------------
(* Claims about run_pipeline, under SpecPipeline *)

Returned(stage) == stage \in DOMAIN pipe_results

\* The Result of the security stage, collected by run_pipeline or still held
\* by its worker.
SecurityResult ==
    IF Returned("security") THEN pipe_results["security"] ELSE worker["security"].result

\* C7: once the coder's Result is unsuccessful, run_pipeline has returned,
\* the coder is the only stage that was invoked and `results` holds the key
\* coder alone.
C7_CoderFailureStops ==
    (Returned("coder") /\ ~pipe_results["coder"].success)
    => /\ pipe_pc = "returned"
       /\ invoked = {"coder"}
       /\ DOMAIN pipe_results = {"coder"}

\* The coder came back blocked while both reviews and the tester were due.
C7_Witness ==
    /\ pipe_pc = "returned"
    /\ Truthy(pipe_results["coder"].blocked)
    /\ Len(ReviewTasks(cfg)) = 2
    /\ TesterRuns(cfg)

\* C8: with require_security_pass, once the security stage's Result is
\* blocked the tester is not invoked and `results` has no key tester.
C8_SecurityBlockStopsTester ==
    (/\ cfg.require_security_pass
     /\ SecurityResult # NoResult
     /\ Truthy(SecurityResult.blocked))
    => /\ "tester" \notin invoked
       /\ ~Returned("tester")
       /\ pipe_pc # "tester"

\* Parallel reviews, security blocked, the review fine, the tester due:
\* run_pipeline has returned.
C8_Witness ==
    /\ pipe_pc = "returned"
    /\ cfg.require_security_pass
    /\ cfg.parallel_reviews
    /\ TesterRuns(cfg)
    /\ Returned("security") /\ Truthy(pipe_results["security"].blocked)
    /\ Returned("review") /\ pipe_results["review"].success

\* The review stages of the call have all been invoked and have returned.
ReviewsOver ==
    \A k \in 1..Len(ReviewTasks(cfg)) :
        LET n == ReviewTasks(cfg)[k]
        IN n \in invoked /\ Returned(n) /\ worker[n].pc \in {"off", "done"}

\* C9: a review stage is invoked only after the coder has returned, and when
\* the security-blocked check is evaluated, and from then on (the tester
\* included), every review stage has returned.
C9_ForkJoinBarrier ==
    /\ \A n \in ReviewStages :
        (n \in invoked \/ worker[n].pc # "off")
        => Returned("coder") /\ pipe_results["coder"].success /\ pipe_pc # "coder"
    /\ (pipe_pc \in {"check", "tester"} \/ "tester" \in invoked) => ReviewsOver
    /\ (pipe_pc = "returned" /\ pipe_results["coder"].success) => ReviewsOver

\* Both workers ran and are done, and the tester is being invoked.
C9_Witness ==
    /\ pipe_pc = "tester"
    /\ cfg.parallel_reviews
    /\ \A n \in ReviewStages : worker[n].pc = "done"

\* C10: nothing but the coordinating thread writes the session's
\* completed_summaries, blockers or durable record.
C10_OnlyCoordinatorWrites ==
    \A w \in writes : w[1] = "main"

-----------------------------------------------------------------------------
(* orchestrator.py: invoke_agent called by the caller itself, one call       *)
(* after the other, on a session that already has a history                 *)

\* The log once r has come back for the session st.
Logged(lg, st, r) ==
    IF st = NoSession THEN lg ELSE [lg EXCEPT ![st.session_id] = Append(@, r)]

\* orchestrator.py 201-255: agent created, collaborator called, digest and
\* blocker recorded, record written
InvokeAgent(kind) ==
    /\ exec_pc = "idle"
    /\ last.n < MaxOps
    /\ kind \in Registered
    /\ \E r \in GatewayResults(kind) :
        LET st == RecordResult(state, kind, r)
        IN /\ state' = st
           /\ disk' = SaveState(disk, st)
           /\ log' = Logged(log, state, r)
    /\ inv' = Invocation(kind, {}, state)
    /\ last' = Call(last.n + 1, "invoke_agent", "returned", FALSE, kind)
    /\ UNCHANGED <<task_counter, exec_vars>>
    /\ UNCHANGED <<gw_vars, pipe_vars>>

\* The kinds and replies of the invocations a session has behind it.
OldKinds == <<"coder", "security", "reviewer", "tester">>
OldCollabs == SetToSeq(SchedCollabs)

OldResult(k) ==
    Invoke(OldKinds[(k % Len(OldKinds)) + 1], OldCollabs[(k % Len(OldCollabs)) + 1])

OldResults(h) == [k \in 1..h |-> OldResult(k)]

\* The session after invoke_agent has recorded these Results in turn.
RECURSIVE Replay(_, _)
Replay(st, results) ==
    IF results = <<>> THEN st
    ELSE Replay(RecordResult(st, Head(results).agent_type, Head(results)), Tail(results))

\* start_session (orchestrator.py 162-167): a session with nothing in it
NewSession(sid) == SwarmState(sid, PyNone, <<>>, <<>>, <<>>)

\* How many invocations the session has behind it when the caller goes on.
HistoryLengths == {0, SummaryCap - 1, SummaryCap}

HistoryInit ==
    /\ GatewayIdle
    /\ PipelineIdle
    /\ \E h \in HistoryLengths :
        /\ state = Replay(NewSession(PlanSession), OldResults(h))
        /\ log = [NoLog EXCEPT ![PlanSession] = OldResults(h)]
    /\ disk = SaveState(EmptyDisk, state)
    /\ inv = NoInv
    /\ exec_pc = "idle"
    /\ exec_i = 1
    /\ exec_ret = NoResult
    /\ exec_results = <<>>
    /\ calls = 0
    /\ crashes = 0
    /\ task_counter = 0
    /\ last = NoCall

HistoryNext ==
    \/ \E kind \in {"coder", "security"} : InvokeAgent(kind)
    \/ \E sid \in SessionIds : ResumeSession(sid)
    \/ Crash

SpecHistory == HistoryInit /\ [][HistoryNext]_vars

Digests(results) == [k \in 1..Len(results) |-> ToSummaryString(results[k])]

IsPrefix(a, b) == Len(a) <= Len(b) /\ SubSeq(b, 1, Len(a)) = a

\* The Result of the latest invoke_agent call on the session sid.
LatestResult(lg, sid) == lg[sid][Len(lg[sid])]

\* C12: an invoke_agent call whose Result is blocked appends the one entry
\* "<agentkind>: <reason>" to the session's blockers, a call whose Result is
\* not blocked leaves the list as it is, and no other step changes it; the
\* blockers of a durable record only ever grow at the end.
C12_BlockersAppendOnly ==
    [][/\ \A sid \in SessionIds : disk[sid] # NoRecord =>
            /\ disk'[sid] # NoRecord
            /\ IsPrefix(disk[sid].blockers, disk'[sid].blockers)
       /\ (state # NoSession /\ state' # NoSession
              /\ state'.session_id = state.session_id) =>
            IF last'.n # last.n /\ last'.op = "invoke_agent"
            THEN LET r == LatestResult(log', state.session_id)
                 IN state'.blockers =
                        IF Truthy(r.blocked)
                        THEN Append(state.blockers, <<last'.arg, r.block_reason>>)
                        ELSE state.blockers
            ELSE state'.blockers = state.blockers]_vars

\* A new session, a blocked invocation and then one that is not: one entry.
C12_Witness ==
    /\ state # NoSession
    /\ Len(log[state.session_id]) = 2
    /\ Truthy(log[state.session_id][1].blocked)
    /\ ~Truthy(log[state.session_id][2].blocked)
    /\ Len(state.blockers) = 1

-----------------------------------------------------------------------------
(* orchestrator.py: start_session, plan_feature and the task-id counter *)

\* TaskId with a fault: the counter is not part of the identifier.
TaskIdConstant(n) == "task_001"

\* orchestrator.py 137: f"task_{self._task_counter:03d}"
TaskId(n) ==
    IF n < 10 THEN "task_00" \o ToString(n)
    ELSE IF n < 100 THEN "task_0" \o ToString(n)
    ELSE "task_" \o ToString(n)

\* Texts the architect's summary can be.
PlanNoTasks   == "I could not split this feature into tasks."
PlanFlat      == "{\"tasks\": [{\"agent\": \"coder\"}, {\"agent\": \"refactor\"}]}"
PlanWithDeps  == "{\"tasks\": [{\"agent\": \"coder\"}, {\"agent\": \"tester\", \"depends_on\": [\"task_001\"]}]}"
PlanBadKind   == "{\"tasks\": [{\"agent\": \"coder\"}, {\"agent\": \"planner\"}]}"
PlanBadJson   == "{\"tasks\": [{\"task\": \"implement\"},]}"

PlanTexts == {PlanNoTasks, PlanFlat, PlanWithDeps, PlanBadKind, PlanBadJson}

Entry(value, has_list) == [agent |-> value, has_list |-> has_list]

\* What a text holds: whether a "tasks" array is in it, whether the array is
\* well-formed JSON, and for each of its entries the value of "agent" and
\* whether the entry holds a list (depends_on, context_files).
PlanShape(text) ==
    CASE text = PlanFlat ->
            [has_tasks |-> TRUE, well_formed |-> TRUE,
             entries |-> <<Entry("coder", FALSE), Entry("refactor", FALSE)>>]
      [] text = PlanWithDeps ->
            [has_tasks |-> TRUE, well_formed |-> TRUE,
             entries |-> <<Entry("coder", FALSE), Entry("tester", TRUE)>>]
      [] text = PlanBadKind ->
            [has_tasks |-> TRUE, well_formed |-> TRUE,
             entries |-> <<Entry("coder", FALSE), Entry("planner", FALSE)>>]
      [] text = PlanBadJson ->
            [has_tasks |-> TRUE, well_formed |-> FALSE,
             entries |-> <<Entry(Missing, FALSE)>>]
      [] OTHER ->
            [has_tasks |-> FALSE, well_formed |-> TRUE, entries |-> <<>>]

\* orchestrator.py 379: the group (.*?) ends at the first "]" after the "[",
\* which closes the array only if no entry holds a list of its own
GroupIsWholeArray(shape) ==
    \A k \in 1..Len(shape.entries) : ~shape.entries[k].has_list

\* orchestrator.py 382: json.loads(f"[{group}]") returns
LoadsOk(shape) == shape.well_formed /\ GroupIsWholeArray(shape)

\* orchestrator.py 383-391: the identifier is taken first, then AgentType(...)
\* raises ValueError for a value that is no agent kind
RECURSIVE BuildTasks(_, _, _)
BuildTasks(entries, counter, tasks) ==
    IF entries = <<>>
    THEN [tasks |-> tasks, counter |-> counter, raised |-> FALSE]
    ELSE LET kind == Get(Head(entries).agent, "coder")
         IN IF kind \notin AgentType
            THEN [tasks |-> tasks, counter |-> counter + 1, raised |-> TRUE]
            ELSE BuildTasks(Tail(entries), counter + 1,
                            Append(tasks, Task(TaskId(counter + 1), kind, <<>>, <<>>,
                                               "pending", NoResult)))

\* orchestrator.py 394-418
FallbackTasks(counter) ==
    <<Task(TaskId(counter + 1), "coder", <<>>, <<>>, "pending", NoResult),
      Task(TaskId(counter + 2), "security", <<>>, <<"task_001">>, "pending", NoResult),
      Task(TaskId(counter + 3), "reviewer", <<>>, <<"task_001">>, "pending", NoResult),
      Task(TaskId(counter + 4), "tester", <<>>, <<"task_001">>, "pending", NoResult)>>

\* orchestrator.py 374-418: the task list and the counter after the parse
ParsePlan(text, counter) ==
    LET shape == PlanShape(text)
        built == BuildTasks(shape.entries, counter, <<>>)
    IN IF ~shape.has_tasks
       THEN [tasks |-> <<>>, counter |-> counter]
       ELSE IF ~LoadsOk(shape)
       THEN [tasks |-> FallbackTasks(counter), counter |-> counter + 4]
       ELSE IF built.raised
       THEN [tasks |-> FallbackTasks(built.counter), counter |-> built.counter + 4]
       ELSE [tasks |-> built.tasks, counter |-> built.counter]

\* The architect's Results: the summary of a successful one is the reply's
\* text (base.py 391, 401).
ArchitectResults ==
    {r \in GatewayResults("architect") : ~r.success}
    \cup {[r EXCEPT !.summary = text] :
            r \in {x \in GatewayResults("architect") : x.success}, text \in PlanTexts}

\* SaveOutcome with a fault: the error of the write is swallowed.
SaveOutcomeSwallowed(ok) == "returned"

\* orchestrator.py 139-144 and its callers: no handler around write_text, so
\* a failed write leaves the operation as an exception
SaveOutcome(ok) == IF ok THEN "returned" ELSE "raised"

LogStarted(lg, sid) == [lg EXCEPT ![sid] = <<>>]

\* orchestrator.py 154-170
StartSession(sid) ==
    /\ exec_pc = "idle"
    /\ last.n < MaxOps
    /\ state' = NewSession(sid)
    /\ disk' = SaveState(disk, NewSession(sid))
    /\ log' = LogStarted(log, sid)
    /\ last' = Call(last.n + 1, "start_session", SaveOutcome(TRUE), FALSE, sid)
    /\ UNCHANGED <<inv, task_counter, exec_vars>>
    /\ UNCHANGED <<gw_vars, pipe_vars>>

\* orchestrator.py 162-169: self.state is assigned, then the write fails
StartSessionSaveFails(sid) ==
    /\ exec_pc = "idle"
    /\ last.n < MaxOps
    /\ state' = NewSession(sid)
    /\ log' = LogStarted(log, sid)
    /\ last' = Call(last.n + 1, "start_session", SaveOutcome(FALSE), TRUE, sid)
    /\ UNCHANGED <<disk, inv, task_counter, exec_vars>>
    /\ UNCHANGED <<gw_vars, pipe_vars>>

\* orchestrator.py 241-253: digest and blocker are in memory, then the write
\* of the record fails
InvokeAgentSaveFails(kind) ==
    /\ exec_pc = "idle"
    /\ last.n < MaxOps
    /\ kind \in Registered
    /\ state # NoSession
    /\ \E r \in GatewayResults(kind) :
        /\ state' = RecordResult(state, kind, r)
        /\ log' = Logged(log, state, r)
    /\ inv' = Invocation(kind, {}, state)
    /\ last' = Call(last.n + 1, "invoke_agent", SaveOutcome(FALSE), TRUE, kind)
    /\ UNCHANGED <<disk, task_counter, exec_vars>>
    /\ UNCHANGED <<gw_vars, pipe_vars>>

\* orchestrator.py 219 with registry.py 56-58: no agent class for the kind
InvokeAgentRaise(kind) ==
    /\ exec_pc = "idle"
    /\ last.n < MaxOps
    /\ kind \in AgentType \ Registered
    /\ last' = Call(last.n + 1, "invoke_agent", "raised", FALSE, kind)
    /\ UNCHANGED <<state, disk, inv, log, task_counter, exec_vars>>
    /\ UNCHANGED <<gw_vars, pipe_vars>>

\* orchestrator.py 355-356: the session plan_feature works on
Started(sid) == IF state = NoSession THEN NewSession(sid) ELSE state

StartedDisk(sid) == IF state = NoSession THEN SaveState(disk, NewSession(sid)) ELSE disk

StartedLog(sid) == IF state = NoSession THEN LogStarted(log, sid) ELSE log

\* orchestrator.py 355-356: the write of start_session fails
PlanFeatureStartFails(sid) ==
    /\ exec_pc = "idle"
    /\ last.n < MaxOps
    /\ state = NoSession
    /\ state' = NewSession(sid)
    /\ log' = LogStarted(log, sid)
    /\ last' = Call(last.n + 1, "plan_feature", SaveOutcome(FALSE), TRUE, "")
    /\ UNCHANGED <<disk, inv, task_counter, exec_vars>>
    /\ UNCHANGED <<gw_vars, pipe_vars>>

\* orchestrator.py 361-365: the write at the end of invoke_agent fails
PlanFeatureInvokeFails(sid) ==
    /\ exec_pc = "idle"
    /\ last.n < MaxOps
    /\ \E r \in ArchitectResults :
        /\ state' = RecordResult(Started(sid), "architect", r)
        /\ log' = Logged(StartedLog(sid), Started(sid), r)
    /\ disk' = StartedDisk(sid)
    /\ inv' = Invocation("architect", {}, Started(sid))
    /\ last' = Call(last.n + 1, "plan_feature", SaveOutcome(FALSE), TRUE, "")
    /\ UNCHANGED <<task_counter, exec_vars>>
    /\ UNCHANGED <<gw_vars, pipe_vars>>

\* PlanFeatureArchitectFailed with a fault: the empty list that is returned is
\* also made the session's plan, and the failure text its architecture.
PlanFeatureArchitectFailedClears(sid) ==
    /\ exec_pc = "idle"
    /\ last.n < MaxOps
    /\ \E r \in ArchitectResults :
        /\ ~r.success
        /\ LET st == [RecordResult(Started(sid), "architect", r)
                        EXCEPT !.tasks = <<>>, !.architecture = r.summary]
           IN /\ state' = st
              /\ disk' = SaveState(StartedDisk(sid), st)
        /\ log' = Logged(StartedLog(sid), Started(sid), r)
    /\ inv' = Invocation("architect", {}, Started(sid))
    /\ last' = Call(last.n + 1, "plan_feature", SaveOutcome(TRUE), FALSE, "")
    /\ UNCHANGED <<task_counter, exec_vars>>
    /\ UNCHANGED <<gw_vars, pipe_vars>>

\* orchestrator.py 361-369: the architect did not succeed, [] is returned
PlanFeatureArchitectFailed(sid) ==
    /\ exec_pc = "idle"
    /\ last.n < MaxOps
    /\ \E r \in ArchitectResults :
        /\ ~r.success
        /\ LET st == RecordResult(Started(sid), "architect", r)
           IN /\ state' = st
              /\ disk' = SaveState(StartedDisk(sid), st)
        /\ log' = Logged(StartedLog(sid), Started(sid), r)
    /\ inv' = Invocation("architect", {}, Started(sid))
    /\ last' = Call(last.n + 1, "plan_feature", SaveOutcome(TRUE), FALSE, "")
    /\ UNCHANGED <<task_counter, exec_vars>>
    /\ UNCHANGED <<gw_vars, pipe_vars>>

\* orchestrator.py 348-423: the architect succeeded; architecture, tasks, save
PlanFeature(sid) ==
    /\ exec_pc = "idle"
    /\ last.n < MaxOps
    /\ \E r \in ArchitectResults :
        /\ r.success
        /\ LET recorded == RecordResult(Started(sid), "architect", r)
               parsed   == ParsePlan(r.summary, task_counter)
               st       == [recorded EXCEPT !.architecture = r.summary,
                                            !.tasks = parsed.tasks]
           IN /\ state' = st
              /\ disk' = SaveState(StartedDisk(sid), st)
              /\ task_counter' = parsed.counter
        /\ log' = Logged(StartedLog(sid), Started(sid), r)
        /\ last' = Call(last.n + 1, "plan_feature", SaveOutcome(TRUE), FALSE, r.summary)
    /\ inv' = Invocation("architect", {}, Started(sid))
    /\ UNCHANGED exec_vars
    /\ UNCHANGED <<gw_vars, pipe_vars>>

\* orchestrator.py 420-421: the tasks are assigned, then the write fails
PlanFeatureSaveFails(sid) ==
    /\ exec_pc = "idle"
    /\ last.n < MaxOps
    /\ \E r \in ArchitectResults :
        /\ r.success
        /\ LET recorded == RecordResult(Started(sid), "architect", r)
               parsed   == ParsePlan(r.summary, task_counter)
           IN /\ state' = [recorded EXCEPT !.architecture = r.summary,
                                           !.tasks = parsed.tasks]
              /\ disk' = SaveState(StartedDisk(sid), recorded)
              /\ task_counter' = parsed.counter
        /\ log' = Logged(StartedLog(sid), Started(sid), r)
        /\ last' = Call(last.n + 1, "plan_feature", SaveOutcome(FALSE), TRUE, r.summary)
    /\ inv' = Invocation("architect", {}, Started(sid))
    /\ UNCHANGED exec_vars
    /\ UNCHANGED <<gw_vars, pipe_vars>>

\* orchestrator.py 449-450: the task is running in memory, the write fails
ExecStartSaveFails ==
    /\ exec_pc = "loop"
    /\ exec_i <= Len(state.tasks)
    /\ DepsMet(state.tasks, CurTask)
    /\ IsPending(CurTask)
    /\ state' = [state EXCEPT !.tasks[exec_i].status = "running"]
    /\ exec_pc' = "idle"
    /\ last' = Call(last.n, "execute_plan", SaveOutcome(FALSE), TRUE, CurTask.id)
    /\ UNCHANGED <<disk, inv, exec_i, exec_ret, exec_results, calls, crashes>>
    /\ UNCHANGED <<gw_vars, pipe_vars, task_counter, log>>

\* orchestrator.py 460-464 with 241-253: the write inside invoke_agent fails
ExecGatewaySaveFails ==
    /\ exec_pc = "invoking"
    /\ CurTask.agent_type \in Registered
    /\ \E r \in GatewayResults(CurTask.agent_type) :
        state' = RecordResult(state, CurTask.agent_type, r)
    /\ exec_pc' = "idle"
    /\ last' = Call(last.n, "execute_plan", SaveOutcome(FALSE), TRUE, CurTask.id)
    /\ UNCHANGED <<disk, inv, exec_i, exec_ret, exec_results, calls, crashes>>
    /\ UNCHANGED <<gw_vars, pipe_vars, task_counter, log>>

\* orchestrator.py 466-474: result and status are attached, the write fails
ExecAttachSaveFails ==
    /\ exec_pc = "attach"
    /\ state' = [state EXCEPT !.tasks[exec_i].result = exec_ret,
                              !.tasks[exec_i].status = StatusOf(exec_ret)]
    /\ exec_pc' = "idle"
    /\ exec_ret' = NoResult
    /\ last' = Call(last.n, "execute_plan", SaveOutcome(FALSE), TRUE, CurTask.id)
    /\ UNCHANGED <<disk, inv, exec_i, exec_results, calls, crashes>>
    /\ UNCHANGED <<gw_vars, pipe_vars, task_counter, log>>

\* A new process in an empty workspace.
SessionInit ==
    /\ GatewayIdle
    /\ PipelineIdle
    /\ ApiIdle
    /\ state = NoSession
    /\ disk = EmptyDisk
    /\ inv = NoInv
    /\ exec_pc = "idle"
    /\ exec_i = 1
    /\ exec_ret = NoResult
    /\ exec_results = <<>>
    /\ calls = 0
    /\ crashes = 0

\* One process: the caller's calls, one after the other.
ProcessNext ==
    \/ StartSession(PlanSession)
    \/ StartSessionSaveFails(PlanSession)
    \/ InvokeAgent("security")
    \/ InvokeAgentSaveFails("security")
    \/ \E kind \in AgentType : InvokeAgentRaise(kind)
    \/ PlanFeatureStartFails(PlanSession)
    \/ PlanFeatureInvokeFails(PlanSession)
    \/ PlanFeatureArchitectFailed(PlanSession)
    \/ PlanFeature(PlanSession)
    \/ PlanFeatureSaveFails(PlanSession)
    \/ ExecBegin
    \/ ExecSkipUnmet
    \/ ExecSkipNotPending
    \/ ExecStart
    \/ ExecStartSaveFails
    \/ ExecGatewayRaise
    \/ ExecGatewayReturn
    \/ ExecGatewaySaveFails
    \/ ExecAttach
    \/ ExecAttachSaveFails
    \/ ExecEnd

SpecProcess == SessionInit /\ [][ProcessNext]_vars

\* Processes that die and are followed by a new one on the same workspace.
SessionNext ==
    \/ StartSession(PlanSession)
    \/ StartSessionSaveFails(PlanSession)
    \/ InvokeAgent("security")
    \/ InvokeAgentSaveFails("security")
    \/ InvokeAgentRaise("refactor")
    \/ PlanFeatureStartFails(PlanSession)
    \/ PlanFeatureInvokeFails(PlanSession)
    \/ PlanFeatureArchitectFailed(PlanSession)
    \/ PlanFeature(PlanSession)
    \/ PlanFeatureSaveFails(PlanSession)
    \/ ExecBegin
    \/ ExecSkipUnmet
    \/ ExecSkipNotPending
    \/ ExecStart
    \/ ExecStartSaveFails
    \/ ExecGatewayRaise
    \/ ExecGatewayReturn
    \/ ExecGatewaySaveFails
    \/ ExecAttach
    \/ ExecAttachSaveFails
    \/ ExecEnd
    \/ \E sid \in SessionIds : ResumeSession(sid)
    \/ Crash

SpecSession == SessionInit /\ [][SessionNext]_vars

-----------------------------------------------------------------------------
(* Claims about the caller's operations, under SpecProcess and SpecSession *)

\* The record of the session holds the task statuses that memory holds.
StatusesPersisted(st, dk) ==
    /\ dk[st.session_id] # NoRecord
    /\ Len(dk[st.session_id].tasks) = Len(st.tasks)
    /\ \A i \in 1..Len(st.tasks) :
        /\ dk[st.session_id].tasks[i].id = st.tasks[i].id
        /\ dk[st.session_id].tasks[i].status = st.tasks[i].status

\* C15: in a session of which no write was lost, a task identifier whose
\* status is not pending does not have status pending after any step, and a
\* task identifier whose status is completed, failed or blocked keeps that
\* status (so it is not run again).
C15_NoReturnToPending ==
    [][(state # NoSession /\ state' # NoSession
           /\ state'.session_id = state.session_id
           /\ StatusesPersisted(state, disk)) =>
        \A i \in 1..Len(state.tasks) : \A j \in 1..Len(state'.tasks) :
            state'.tasks[j].id = state.tasks[i].id =>
                /\ state.tasks[i].status # "pending" =>
                        state'.tasks[j].status # "pending"
                /\ state.tasks[i].status \in {"completed", "failed", "blocked"} =>
                        state'.tasks[j].status = state.tasks[i].status]_vars

\* C17: an invoke_agent call in which no write of the record fails returns a
\* Result, whatever the agent kind.
C17_InvokeAgentAlwaysReturns ==
    (last.op = "invoke_agent" /\ ~last.save_failed) => last.outcome = "returned"

\* C18: an invoke_agent call on a session in which the write of the record
\* fails leaves completed_summaries and blockers as they were before the
\* call; a call that returns has updated the session and written it.
C18_InvokeAtomicWithSave ==
    [][(last'.n # last.n /\ last'.op = "invoke_agent" /\ state # NoSession) =>
        IF last'.save_failed
        THEN /\ state'.completed_summaries = state.completed_summaries
             /\ state'.blockers = state.blockers
        ELSE last'.outcome = "returned" =>
                /\ state'.completed_summaries # state.completed_summaries
                /\ disk'[state'.session_id] = StateToDict(state')]_vars

\* C19: a step of start_session, invoke_agent, plan_feature or execute_plan in
\* which the write of the record fails ends that operation with an error for
\* its caller: it does not return and execute_plan does not go on.
C19_SaveFailurePropagates ==
    [][(last' # last /\ last'.save_failed) =>
        /\ last'.op \in {"start_session", "invoke_agent", "plan_feature", "execute_plan"}
        /\ last'.outcome = "raised"
        /\ exec_pc' = "idle"]_vars

\* execute_plan has raised after the write of a task's running status failed:
\* the task is running in memory and pending in the record.
C19_Witness ==
    /\ state # NoSession
    /\ last.op = "execute_plan"
    /\ last.save_failed
    /\ last.outcome = "raised"
    /\ exec_pc = "idle"
    /\ disk[state.session_id] # NoRecord
    /\ \E i \in 1..Len(state.tasks) :
        /\ state.tasks[i].id = last.arg
        /\ state.tasks[i].status = "running"
        /\ Len(disk[state.session_id].tasks) = Len(state.tasks)
        /\ disk[state.session_id].tasks[i].status = "pending"

\* A text with no "tasks" array in it, with one that is not JSON, or with an
\* entry whose agent is no agent kind.
Unparsable(text) ==
    LET shape == PlanShape(text)
    IN \/ ~shape.has_tasks
       \/ ~shape.well_formed
       \/ \E k \in 1..Len(shape.entries) :
            Get(shape.entries[k].agent, "coder") \notin AgentType

KindsOf(tasks) == [k \in 1..Len(tasks) |-> tasks[k].agent_type]

\* C20: when plan_feature returns after a successful architect invocation
\* whose summary holds no parsable task list, the session's tasks are the
\* default plan: four tasks, coder, security, reviewer, tester.
C20_FallbackOnUnparsablePlan ==
    [][(/\ last'.n # last.n
        /\ last'.op = "plan_feature"
        /\ last'.outcome = "returned"
        /\ last'.arg # ""
        /\ Unparsable(last'.arg))
       => KindsOf(state'.tasks) = <<"coder", "security", "reviewer", "tester">>]_vars

-----------------------------------------------------------------------------
(* Claims about the default plan and the durable record, under SpecProcess *)

DefaultKinds == <<"coder", "security", "reviewer", "tester">>

\* C21: in every default plan of plan_feature the security, reviewer and
\* tester tasks depend on exactly the coder task of that same plan, whatever
\* the task-id counter was when the default plan was built.
C21_FallbackDependsOnItsCoder ==
    (state # NoSession /\ KindsOf(state.tasks) = DefaultKinds)
    => \A k \in 2..Len(state.tasks) :
        state.tasks[k].depends_on = <<state.tasks[1].id>>

\* The record of the session holds the task statuses, completed_summaries,
\* blockers and architecture that memory holds.
Persisted(st, dk) ==
    st # NoSession =>
        /\ StatusesPersisted(st, dk)
        /\ dk[st.session_id].completed_summaries = st.completed_summaries
        /\ dk[st.session_id].blockers = st.blockers
        /\ dk[st.session_id].architecture = st.architecture

ApiOps == {"start_session", "invoke_agent", "plan_feature", "execute_plan"}

-----------------------------------------------------------------------------
(* Claims about the plan executor across crashes, under Spec *)

\* C23: after a crash and resume_session, when the loop of execute_plan is at
\* a task whose status is running (the status the record held at the crash)
\* and whose dependencies are all completed, it executes the task again: the
\* step starts the Gateway invocation for it.
C23_RunningIsRunAgain ==
    [][(/\ state # NoSession
        /\ crashes > 0
        /\ crashes' = crashes
        /\ exec_pc = "loop"
        /\ exec_i <= Len(state.tasks)
        /\ CurTask.agent_type \in Registered
        /\ CurTask.status = "running"
        /\ DepsMet(state.tasks, CurTask))
       => /\ exec_pc' = "invoking"
          /\ inv'.kind = CurTask.agent_type]_vars

-----------------------------------------------------------------------------
(* Claims about session identifiers, under SpecProcess: the identifier of   *)
(* start_session is the clock's reading to the second, so two calls within  *)
(* one second are two calls with the same identifier                        *)

\* C24: start_session uses a session identifier under which no durable
\* record exists yet, so it leaves every existing record as it is.
C24_StartSessionUsesFreshId ==
    [][(last'.n # last.n /\ last'.op = "start_session") =>
        /\ disk[last'.arg] = NoRecord
        /\ \A sid \in SessionIds : disk[sid] # NoRecord => disk'[sid] = disk[sid]]_vars

\* C25: when execute_plan invokes the Gateway for a task, the context files
\* it passes are the task's own context_files together with the changed and
\* created files of every task that is completed at that moment, as the
\* record of the session holds them, whichever process completed those tasks.
C25_ContextIsUnionOfCompleted ==
    [][(state # NoSession /\ exec_pc = "loop" /\ exec_pc' = "invoking") =>
        inv'.context_files = ContextFiles(disk[state.session_id].tasks, CurTask)]_vars

-----------------------------------------------------------------------------
(* The plan executor in one process that does not die: execute_plan called  *)
(* again and again on a resumed session.  The loop's steps are taken (the   *)
(* interpreter runs, and the collaborator ends or is killed at its timeout, *)
(* base.py 218-249), and the caller goes on calling.                        *)

ConvergeInit ==
    /\ GatewayIdle
    /\ PipelineIdle
    /\ ApiIdle
    /\ \E E \in EdgeSets, kinds \in KindPlans :
        disk = [EmptyDisk EXCEPT ![PlanSession] =
                    StateToDict(SwarmState(PlanSession, PyNone, PlanTasks(E, kinds),
                                           <<>>, <<>>))]
    /\ state = LoadState(disk, PlanSession)
    /\ inv = NoInv
    /\ exec_pc = "idle"
    /\ exec_i = 1
    /\ exec_ret = NoResult
    /\ exec_results = <<>>
    /\ calls = 0
    /\ crashes = 0

ConvergeNext ==
    \/ ExecBegin
    \/ ExecSkipUnmet
    \/ ExecSkipNotPending
    \/ ExecStart
    \/ ExecGatewayRaise
    \/ ExecGatewayReturn
    \/ ExecAttach
    \/ ExecEnd

SpecConverge ==
    /\ ConvergeInit
    /\ [][ConvergeNext]_vars
    /\ WF_vars(ExecBegin)
    /\ WF_vars(ExecSkipUnmet \/ ExecSkipNotPending \/ ExecStart \/ ExecGatewayRaise
                \/ ExecGatewayReturn \/ ExecAttach \/ ExecEnd)

\* The indices of the tasks that task i names in its depends_on.
DepsOf(tasks, i) ==
    {j \in 1..Len(tasks) : \E k \in 1..Len(tasks[i].depends_on) :
                                tasks[i].depends_on[k] = tasks[j].id}

\* The tasks reached from the set S along at most n dependency edges.
RECURSIVE Below(_, _, _)
Below(tasks, S, n) ==
    IF n = 0 THEN S
    ELSE Below(tasks, S \cup UNION {DepsOf(tasks, i) : i \in S}, n - 1)

Acyclic(tasks) ==
    \A i \in 1..Len(tasks) : i \notin Below(tasks, DepsOf(tasks, i), Len(tasks))

\* An acyclic plan without dangling dependency in which every invocation so
\* far succeeded unblocked (and every kind has an agent, so none raised).
AllGoesWell(tasks) ==
    /\ Acyclic(tasks)
    /\ \A i \in 1..Len(tasks) :
        /\ ~HasDangling(tasks, tasks[i])
        /\ tasks[i].agent_type \in Registered
        /\ tasks[i].status \in {"pending", "completed"}

AllCompleted(tasks) == \A i \in 1..Len(tasks) : tasks[i].status = "completed"

-----------------------------------------------------------------------------
(* Claims about the order of steps inside execute_plan, under Spec *)

\* C27: execute_plan has at most one Gateway invocation in flight: a step
\* that starts the invocation for a task is taken from the loop, with no
\* invocation under way and no Result waiting to be attached, and every task
\* executed earlier in the call has its Result and the status that follows
\* from it, in memory and in the durable record.
C27_OneInvocationAtATime ==
    [][(state # NoSession /\ exec_pc' = "invoking" /\ exec_pc # "invoking") =>
        /\ exec_pc = "loop"
        /\ exec_ret = NoResult
        /\ \A id \in DOMAIN exec_results :
            \E j \in 1..(exec_i - 1) :
                /\ state.tasks[j].id = id
                /\ state.tasks[j].result = exec_results[id]
                /\ state.tasks[j].status =
                      (IF Truthy(exec_results[id].blocked) THEN "blocked"
                       ELSE IF exec_results[id].success THEN "completed" ELSE "failed")
                /\ disk[state.session_id].tasks[j].status = state.tasks[j].status
                /\ disk[state.session_id].tasks[j].result # NoResult]_vars

\* The invocation for the third task of the list is under way after two
\* tasks were executed in the same call.
C27_Witness ==
    /\ state # NoSession
    /\ exec_pc = "invoking"
    /\ exec_i = 3
    /\ Cardinality(DOMAIN exec_results) = 2

\* C30: while the Gateway invocation for a task is under way in execute_plan,
\* the durable record of the session shows that task with status running: the
\* write of the running status precedes the invocation.
C30_RunningWrittenBeforeInvocation ==
    (state # NoSession /\ exec_pc = "invoking") =>
        /\ disk[state.session_id] # NoRecord
        /\ disk[state.session_id].tasks[exec_i].id = CurTask.id
        /\ disk[state.session_id].tasks[exec_i].status = "running"
        /\ inv.kind = CurTask.agent_type

\* The invocation for a task is under way in the second call of a process
\* started after a crash, and the record shows the task running.
C30_Witness ==
    /\ state # NoSession
    /\ exec_pc = "invoking"
    /\ crashes = 1
    /\ calls = 2
    /\ CurTask.status = "running"
    /\ disk[state.session_id].tasks[exec_i].status = "running"

-----------------------------------------------------------------------------
(* Two steps of invoke_agent on their own: the agent built from a kind and  *)
(* a configuration override, and the digest of a Result put in the history  *)

MaxChanged == 4

\* The Results a caller or the Gateway can hand over: up to MaxChanged
\* changed paths, blocked or not, with or without a reason.
DigestResults ==
    {AgentResult(kind, ok, "Review complete",
                 [k \in 1..n |-> "src/m" \o ToString(k) \o ".py"], <<>>,
                 blocked, reason, PyNone) :
        kind \in {"reviewer", "security"}, ok \in BOOLEAN, n \in 0..MaxChanged,
        blocked \in {PyFalse, PyTrue},
        reason \in {PyNone, "'SQL injection vulnerability'"}}

UnitInit ==
    /\ PipelineIdle
    /\ ApiIdle
    /\ gw_pc = "done"
    /\ gw_result \in DigestResults
    /\ gw_kind = gw_result.agent_type
    /\ gw_collab = Collab("none", PlainText)
    /\ agent = NoAgent
    /\ state = NewSession(PlanSession)
    /\ disk = SaveState(EmptyDisk, state)
    /\ inv = NoInv
    /\ exec_pc = "off"
    /\ exec_i = 1
    /\ exec_ret = NoResult
    /\ exec_results = <<>>
    /\ calls = 0
    /\ crashes = 0

\* registry.py 48-64 under orchestrator.py 213-224: the class of the kind,
\* constructed with the override
CreateAgent ==
    /\ agent = NoAgent
    /\ \E kind \in {"coder", "reviewer"}, override \in ConfigOverrides :
        agent' = BuildAgent(kind, override)
    /\ UNCHANGED <<gw_pc, gw_kind, gw_collab, gw_result>>
    /\ UNCHANGED <<state, disk, inv, exec_vars, pipe_vars, api_vars>>

\* orchestrator.py 241-253: the digest of the Result, the blocker, the write
RecordDigest ==
    /\ gw_pc = "done"
    /\ LET st == RecordResult(state, gw_kind, gw_result)
       IN /\ state' = st
          /\ disk' = SaveState(disk, st)
    /\ gw_pc' = "recorded"
    /\ UNCHANGED <<gw_kind, gw_collab, gw_result, agent>>
    /\ UNCHANGED <<inv, exec_vars, pipe_vars, api_vars>>

UnitNext ==
    \/ CreateAgent
    \/ RecordDigest

SpecUnits == UnitInit /\ [][UnitNext]_vars

\* C28: in an agent built with a configuration override, each of
\* system_prompt, allowed_tools and max_turns is the override's value if that
\* value is truthy (not absent, not None, not empty, not zero), and the
\* default of the agent's kind otherwise.
C28_OverrideIffTruthy ==
    agent # NoAgent =>
        LET d == AgentDefaults(agent.agent_type)
            IsSet(v) == v \notin {Missing, PyNone, "''", "[]", "0"}
        IN /\ agent.system_prompt =
                IF IsSet(agent.config.system_prompt_override)
                THEN agent.config.system_prompt_override ELSE d.system_prompt
           /\ agent.allowed_tools =
                IF IsSet(agent.config.allowed_tools)
                THEN agent.config.allowed_tools ELSE d.allowed_tools
           /\ agent.max_turns =
                IF IsSet(agent.config.max_turns)
                THEN agent.config.max_turns ELSE d.max_turns

\* A coder built with system_prompt_override None, allowed_tools [] and
\* max_turns 20: the turn limit alone is replaced.
C28_Witness ==
    /\ agent # NoAgent
    /\ agent.agent_type = "coder"
    /\ agent.config.system_prompt_override = PyNone
    /\ agent.config.allowed_tools = "[]"
    /\ agent.config.max_turns = "20"
    /\ agent.max_turns = "20"
    /\ agent.allowed_tools = AgentDefaults("coder").allowed_tools
    /\ agent.system_prompt = AgentDefaults("coder").system_prompt

\* The first three changed paths of a Result, separated by ", ".
FirstThree(files) ==
    CASE Len(files) = 0 -> ""
      [] Len(files) = 1 -> files[1]
      [] Len(files) = 2 -> files[1] \o ", " \o files[2]
      [] OTHER          -> files[1] \o ", " \o files[2] \o ", " \o files[3]

\* C29: the digest put in the history for a Result is "[KIND]" with the kind
\* in upper case, then the sign for success or failure, then, if any path
\* changed, "Changed: " with the first three paths and, exactly when there
\* are more than three, "(+N more)" with N the number of the others, then,
\* exactly when the Result is blocked, "BLOCKED: " with the block_reason; the
\* parts are joined by " | ".
C29_DigestFormat ==
    gw_pc = "recorded" =>
        LET r == gw_result
            n == Len(r.files_changed)
        IN state.completed_summaries[Len(state.completed_summaries)] =
              "[" \o Upper(r.agent_type) \o "]"
              \o " | " \o (IF r.success THEN "<U+2713>" ELSE "<U+2717>")
              \o (IF n > 0 THEN " | Changed: " \o FirstThree(r.files_changed) ELSE "")
              \o (IF n > 3 THEN " | (+" \o ToString(n - 3) \o " more)" ELSE "")
              \o (IF r.blocked = PyTrue
                  THEN " | <U+26D4> BLOCKED: " \o FormatValue(r.block_reason) ELSE "")

\* The digest of a blocked Result with four changed paths is in the history.
C29_Witness ==
    /\ gw_pc = "recorded"
    /\ Len(gw_result.files_changed) = 4
    /\ gw_result.blocked = PyTrue
    /\ gw_result.block_reason = "'SQL injection vulnerability'"
    /\ state.completed_summaries =
          <<"[SECURITY] | <U+2717> | Changed: src/m1.py, src/m2.py, src/m3.py | (+1 more) | <U+26D4> BLOCKED: SQL injection vulnerability">>

-----------------------------------------------------------------------------
(* The recent-activity context of an invocation.                            *)

\* C31: the recent-activity context that invoke_agent passes to the
\* collaborator consists of exactly the last min(5, n) entries of the
\* session's completed_summaries, in order, as they were before the digest of
\* this invocation is appended; with an empty history or no session there is
\* no recent-activity block.
C31_RecentActivityIsLastFive ==
    [][(last'.n # last.n /\ last'.op = "invoke_agent") =>
          IF state = NoSession
          THEN inv'.recent = <<>>
          ELSE LET before == state.completed_summaries
                   n == Len(before)
                   m == Min(5, n)
               IN /\ Len(inv'.recent) = m
                  /\ \A k \in 1..m : inv'.recent[k] = before[n - m + k]]_vars

\* An invocation on a session with 19 digests behind it: five are passed on,
\* and they are not the five oldest.
C31_Witness ==
    /\ state # NoSession
    /\ last.op = "invoke_agent"
    /\ Len(log[state.session_id]) = SummaryCap
    /\ Len(inv.recent) = 5
    /\ inv.recent # SubSeq(state.completed_summaries, 1, 5)

-----------------------------------------------------------------------------
(* The tester stage of run_pipeline, under SpecPipeline *)

\* The conditions under which the tester stage is due, read off the call's
\* policy and the Results collected so far.
TesterDue ==
    /\ "coder" \in DOMAIN pipe_results
    /\ pipe_results["coder"].success
    /\ ~(/\ "security" \in DOMAIN pipe_results
         /\ Truthy(pipe_results["security"].blocked)
         /\ cfg.require_security_pass)
    /\ ~cfg.skip_tests
    /\ cfg.require_tests
    /\ cfg.agents["tester"] # "disabled"

\* C32: in run_pipeline the tester is invoked, exactly once, if and only if
\* the coder succeeded, it is not the case that security ran, was blocked and
\* require_security_pass is true, skip_tests is false, require_tests is true
\* and the tester kind is not disabled by configuration; a blocked security
\* result with require_security_pass = false does not prevent the tester.
C32_TesterIffDue ==
    /\ [](pipe_pc = "returned" => ("tester" \in invoked <=> TesterDue))
    /\ [][("tester" \in invoked' /\ (pipe_pc' = "tester" /\ pipe_pc # "tester"))
             => "tester" \notin invoked]_vars
    /\ [][pipe_pc = "tester" => pipe_pc' \in {"tester", "returned"}]_vars
    /\ [][pipe_pc = "returned" => pipe_pc' = "returned" /\ invoked' = invoked]_vars

\* Security was blocked, the policy does not ask for a pass, and the tester
\* has run.
C32_Witness ==
    /\ pipe_pc = "returned"
    /\ "security" \in DOMAIN pipe_results
    /\ Truthy(pipe_results["security"].blocked)
    /\ ~cfg.require_security_pass
    /\ "tester" \in DOMAIN pipe_results

-----------------------------------------------------------------------------
(* One caller on a resumed session with a plan: a direct invoke_agent,       *)
(* run_pipeline and execute_plan, each made when the one before has ended.  *)

\* The run_pipeline calls of this caller: every stage on, nothing disabled.
FrameCalls ==
    {c \in PipelineCalls :
        /\ ~c.skip_security /\ ~c.skip_tests /\ ~c.skip_review
        /\ c.require_tests
        /\ \A name \in {"security", "reviewer", "tester"} : c.agents[name] = "absent"}

\* The plan of the session: a chain coder, security, tester.
FramePlan == PlanTasks({<<2, "task_001">>, <<3, "task_002">>},
                       <<"coder", "security", "tester">>)

FrameInit ==
    /\ GatewayIdle
    /\ ApiIdle
    /\ cfg \in FrameCalls
    /\ pipe_pc = "ready"
    /\ pipe_results = <<>>
    /\ worker = [n \in ReviewStages |-> NoWorker]
    /\ invoked = {}
    /\ writes = {}
    /\ state = SwarmState(PlanSession, PyNone, FramePlan, <<>>, <<>>)
    /\ disk = SaveState(EmptyDisk, state)
    /\ inv = NoInv
    /\ exec_pc = "idle"
    /\ exec_i = 1
    /\ exec_ret = NoResult
    /\ exec_results = <<>>
    /\ calls = 0
    /\ crashes = 0

\* No call of the caller is under way.
CallerFree == exec_pc = "idle" /\ pipe_pc \in {"ready", "returned"}

\* The caller's direct invoke_agent, the first thing it does.
FrameInvokeAgent == CallerFree /\ last.n = 0 /\ pipe_pc = "ready" /\ InvokeAgent("security")

FramePipeStart == CallerFree /\ PipeStart

FrameExecBegin == CallerFree /\ ExecBegin

FrameNext ==
    \/ FrameInvokeAgent
    \/ FramePipeStart
    \/ PipeCoderReturn
    \/ PipeSubmit
    \/ \E n \in ReviewStages : WorkerStart(n)
    \/ \E n \in ReviewStages : WorkerReturn(n)
    \/ \E n \in ReviewStages : WorkerTrimSkip(n)
    \/ \E n \in ReviewStages : WorkerBlocker(n)
    \/ \E n \in ReviewStages : WorkerSnapshot(n)
    \/ \E n \in ReviewStages : WorkerWrite(n)
    \/ PipeCollect
    \/ PipeJoin
    \/ PipeSeqStart
    \/ PipeSeqReturn
    \/ PipeSeqEnd
    \/ PipeSecurityBlocked
    \/ PipeTesterStart
    \/ PipeTesterReturn
    \/ FrameExecBegin
    \/ ExecSkipUnmet
    \/ ExecSkipNotPending
    \/ ExecStart
    \/ ExecGatewayReturn
    \/ ExecAttach
    \/ ExecEnd

SpecFrame == FrameInit /\ [][FrameNext]_vars

\* A step of run_pipeline or of one of its workers.
PipelineStep ==
    \/ pipe_pc' # pipe_pc
    \/ worker' # worker
    \/ pipe_results' # pipe_results
    \/ invoked' # invoked

\* A step of a direct invoke_agent call.
InvokeAgentStep == last'.n # last.n /\ last'.op = "invoke_agent"

\* A task of the session has another status or another Result after the step.
TaskTouched ==
    \E i \in 1..Len(state.tasks) :
        \/ i > Len(state'.tasks)
        \/ state'.tasks[i].status # state.tasks[i].status
        \/ state'.tasks[i].result # state.tasks[i].result

\* C33: run_pipeline and a direct invoke_agent call leave the session's task
\* list unchanged: no task is added or removed and no task's status or result
\* changes; only execute_plan changes a task's status or result.
C33_OnlyExecutePlanTouchesTasks ==
    [][/\ (PipelineStep \/ InvokeAgentStep) => state'.tasks = state.tasks
       /\ TaskTouched => (last.op = "execute_plan" /\ exec_pc \in {"loop", "invoking", "attach"})]_vars

\* A direct invocation and a whole pipeline have ended, execute_plan has then
\* completed the first task, and the others are as they were planned.
C33_Witness ==
    /\ pipe_pc = "returned"
    /\ "tester" \in DOMAIN pipe_results
    /\ Len(log[PlanSession]) >= 1
    /\ state.tasks[1].status = "completed"
    /\ state.tasks[3] = FramePlan[3]

-----------------------------------------------------------------------------
(* Tasks behind a failed or blocked task, under Spec *)

\* Task i of the list depends on a task whose status is failed or blocked.
BehindFailure(tasks, i) ==
    \E k \in 1..Len(tasks[i].depends_on) :
        \E j \in 1..Len(tasks) :
            /\ tasks[j].id = tasks[i].depends_on[k]
            /\ tasks[j].status \in {"failed", "blocked"}

AllBehindFailurePending(tasks) ==
    \A i \in 1..Len(tasks) : BehindFailure(tasks, i) => tasks[i].status = "pending"

\* C34: a task that depends on a task whose status is failed or blocked is
\* never invoked by any later execute_plan call and stays pending forever, in
\* memory and in the durable record; the failure or block of an upstream task
\* is not turned into a failed or blocked status on its dependents.
C34_DependentsOfFailureStayPending ==
    /\ [](/\ state # NoSession => AllBehindFailurePending(state.tasks)
          /\ \A sid \in SessionIds :
                disk[sid] # NoRecord => AllBehindFailurePending(disk[sid].tasks))
    /\ [][(state # NoSession /\ state' # NoSession) =>
            \A i \in 1..Len(state.tasks) : BehindFailure(state.tasks, i) =>
                /\ BehindFailure(state'.tasks, i)
                /\ ~(exec_pc' = "invoking" /\ exec_i' = i /\ exec_pc # "invoking")]_vars
    /\ [][\A sid \in SessionIds : disk[sid] # NoRecord =>
            \A i \in 1..Len(disk[sid].tasks) : BehindFailure(disk[sid].tasks, i) =>
                BehindFailure(disk'[sid].tasks, i)]_vars

\* Two execute_plan calls have ended; a task is blocked, another one failed,
\* and a task that depends on one of them is still pending.
C34_Witness ==
    /\ state # NoSession
    /\ exec_pc = "idle"
    /\ calls = 2
    /\ \E i \in 1..Len(state.tasks) :
        /\ BehindFailure(state.tasks, i)
        /\ state.tasks[i].status = "pending"
    /\ \E j \in 1..Len(state.tasks) : state.tasks[j].status = "blocked"
    /\ \E j \in 1..Len(state.tasks) : state.tasks[j].status = "failed"

-----------------------------------------------------------------------------
(* Planning over several processes: plan_feature, a crash, resume_session,  *)
(* plan_feature again with the counter of the new process.                  *)

PlanningNext ==
    \/ StartSession(PlanSession)
    \/ PlanFeatureArchitectFailed(PlanSession)
    \/ PlanFeature(PlanSession)
    \/ \E sid \in SessionIds : ResumeSession(sid)
    \/ Crash

SpecPlanning == SessionInit /\ [][PlanningNext]_vars

DistinctIds(tasks) ==
    \A i, j \in 1..Len(tasks) : tasks[i].id = tasks[j].id => i = j

\* C35: in every reachable session state the identifiers of the tasks in the
\* session's task list are pairwise distinct, in memory and in the durable
\* record, after any sequence of plan_feature calls in one process and across
\* resume_session in a new process where the identifier counter restarts.
C35_TaskIdsDistinct ==
    /\ state # NoSession => DistinctIds(state.tasks)
    /\ \A sid \in SessionIds : disk[sid] # NoRecord => DistinctIds(disk[sid].tasks)

\* The process that follows a crash has planned: its counter started again
\* at zero, and the list holds the four tasks of the fallback plan.
C35_Witness ==
    /\ crashes = 1
    /\ state # NoSession
    /\ last.op = "plan_feature"
    /\ last.n = 3
    /\ task_counter = 4
    /\ Len(state.tasks) = 4
    /\ state.tasks[1].id = "task_001"

-----------------------------------------------------------------------------
(* agents/base.py: BaseAgent._parse_output on any output string, with what  *)
(* json.loads can do besides returning and raising JSONDecodeError.         *)

\* json.loads(text): it returns or raises JSONDecodeError ("ok", the cases of
\* RawReplies and JsonBlocks), or it raises ValueError (an integer literal of
\* more than 4300 digits) or RecursionError (brackets nested deeper than the
\* interpreter's recursion limit).
LoadsOutcomes == {"ok", "ValueError", "RecursionError"}

Reply(out, raw_loads, block_loads) ==
    [out |-> out, raw_loads |-> raw_loads, block_loads |-> block_loads]

\* The output strings: those of Outputs, a string that is one long number or
\* one deep nest of brackets, and prose with such a text in a ```json fence.
Replies ==
    {Reply(out, "ok", "ok") : out \in Outputs}
    \cup {Reply(PlainText, e, "ok") : e \in LoadsOutcomes \ {"ok"}}
    \cup {Reply(Output(NotJson, [NoJsonBlock EXCEPT !.present = TRUE], sb), "ok", e) :
            e \in LoadsOutcomes \ {"ok"},
            sb \in {NoSummaryBlock, [present |-> TRUE, lines |-> <<>>]}}

Parsed(form, record) == [raised |-> "no", form |-> form, record |-> record]

ParseRaised(error, form) == [raised |-> error, form |-> form, record |-> ParseDefaults]

\* base.py 360-429: `except (json.JSONDecodeError, TypeError)` at line 393 and
\* `except json.JSONDecodeError` at line 403 let every other error out
ParseReply(reply) ==
    LET out == reply.out IN
    IF reply.raw_loads # "ok" THEN ParseRaised(reply.raw_loads, "raw")
    ELSE IF IsCliResult(out.raw) THEN Parsed("raw", ParseOutput(out))
    ELSE IF out.json_block.present /\ reply.block_loads # "ok"
         THEN ParseRaised(reply.block_loads, "json_block")
    ELSE IF out.json_block.present /\ out.json_block.valid
         THEN Parsed("json_block", ParseOutput(out))
    ELSE IF out.summary_block.present THEN Parsed("summary_block", ParseOutput(out))
    ELSE Parsed("text", ParseOutput(out))

ParseInit ==
    /\ OrchestratorIdle
    /\ PipelineIdle
    /\ ApiIdle
    /\ agent = NoAgent
    /\ gw_pc = "ready"
    /\ gw_kind \in {"coder"}
    /\ gw_collab \in Replies
    /\ gw_result = NoResult

\* base.py 173: parsed = self._parse_output(output)
ParseStep ==
    /\ gw_pc = "ready"
    /\ gw_pc' = "done"
    /\ gw_result' = ParseReply(gw_collab)
    /\ UNCHANGED <<gw_kind, gw_collab, agent>>
    /\ UNCHANGED <<state, disk, inv, exec_vars, pipe_vars, api_vars>>

ParseNext == ParseStep

SpecParse == ParseInit /\ [][ParseNext]_vars

\* The first of the four forms that the output holds in a parsable way.
FirstForm(out) ==
    IF out.raw.is_dict /\ out.raw.type = "result" THEN "raw"
    ELSE IF out.json_block.present /\ out.json_block.valid THEN "json_block"
    ELSE IF out.summary_block.present THEN "summary_block"
    ELSE "text"

\* C36: parsing of the collaborator's output tries, in this order, a raw
\* structured reply with type = result, a fenced json block, a fenced
\* key:value summary block and finally the unstructured text, using the first
\* form that parses; for every output string it yields a parsed record
\* without raising.
C36_ParseNeverRaises ==
    gw_pc = "done" =>
        /\ gw_result.raised = "no"
        /\ gw_result.form = FirstForm(gw_collab.out)

-----------------------------------------------------------------------------
(* The history after the parallel reviews, under SpecPipeline *)

\* The record of the session holds what the invocation of stage n left behind.
RecordHolds(n) ==
    LET r == pipe_results[n]
        record == disk[state.session_id]
    IN /\ \E k \in 1..Len(record.completed_summaries) :
            record.completed_summaries[k] = ToSummaryString(r)
       /\ Truthy(r.blocked) =>
            \E k \in 1..Len(record.blockers) :
                record.blockers[k] = <<KindOfStage(n), r.block_reason>>

\* C37: no history update is lost when security and review run concurrently
\* in run_pipeline: in every interleaving of the two worker threads, when the
\* parallel stage has ended the durable record's completed_summaries contains
\* the digest of both invocations and its blockers list contains the entry of
\* every blocked one.
C37_NoLostHistoryUpdate ==
    (/\ state # NoSession
     /\ cfg.parallel_reviews
     /\ pipe_pc = "check"
     /\ Len(ReviewTasks(cfg)) = 2)
    => \A n \in ReviewStages : RecordHolds(n)

-----------------------------------------------------------------------------
(* What an execute_plan call leaves behind, under SpecProcess *)

NoneRunning(tasks) == \A i \in 1..Len(tasks) : tasks[i].status # "running"

\* C38: whenever an execute_plan call has ended, by returning or by raising
\* an error out of the Gateway or out of persistence, no task of the session
\* has status running, neither in memory nor in the durable record.
C38_NothingRunningAfterExecutePlan ==
    (/\ last.op = "execute_plan"
     /\ last.outcome \in {"returned", "raised"}
     /\ state # NoSession)
    => /\ NoneRunning(state.tasks)
       /\ disk[state.session_id] # NoRecord => NoneRunning(disk[state.session_id].tasks)

-----------------------------------------------------------------------------
(* Tasks whose dependencies complete during the pass, under Spec *)

\* Every dependency of task i names a task of the list that is completed.
DepsCompleted(tasks, i) ==
    \A k \in 1..Len(tasks[i].depends_on) :
        \E j \in 1..Len(tasks) :
            tasks[j].id = tasks[i].depends_on[k] /\ tasks[j].status = "completed"

\* C39: within one execute_plan call, a pending task is invoked in that same
\* call if each of its dependencies is completed when the loop visits it,
\* dependencies that completed earlier in the same call included; it does not
\* have to wait for another call.
C39_RunsInTheSamePass ==
    [][(/\ state # NoSession
        /\ exec_pc = "loop"
        /\ exec_i <= Len(state.tasks)
        /\ state.tasks[exec_i].status = "pending"
        /\ DepsCompleted(state.tasks, exec_i)
        /\ crashes' = crashes)
       => /\ exec_pc' = "invoking"
          /\ exec_i' = exec_i
          /\ calls' = calls
          /\ inv'.kind = state.tasks[exec_i].agent_type
          /\ state'.tasks[exec_i].status = "running"]_vars

\* The third task is being invoked in the first call, and the two tasks it
\* depends on were completed earlier in this call.
C39_Witness ==
    /\ state # NoSession
    /\ exec_pc = "invoking"
    /\ calls = 1
    /\ crashes = 0
    /\ exec_i = 3
    /\ Len(CurTask.depends_on) = 2
    /\ \A k \in 1..2 : CurTask.depends_on[k] \in DOMAIN exec_results
    /\ DepsCompleted(state.tasks, exec_i)

-----------------------------------------------------------------------------
(* plan_feature with an architect that does not succeed, under SpecProcess *)

\* A plan_feature call has returned in this step and its architect Result,
\* the latest of the session's log, is not a success.
ArchitectFailedStep ==
    /\ last'.n # last.n
    /\ last'.op = "plan_feature"
    /\ last'.outcome = "returned"
    /\ state' # NoSession
    /\ log'[state'.session_id] # <<>>
    /\ ~LatestResult(log', state'.session_id).success

\* C40: if the architect invocation in plan_feature is unsuccessful,
\* plan_feature leaves the session's existing task list and architecture text
\* unchanged, in memory and in the durable record, and creates no task
\* identifier; only the history, and the blockers if the Result is blocked,
\* record the failed invocation.
C40_FailedArchitectLeavesPlan ==
    [][ArchitectFailedStep =>
        LET before == IF state = NoSession THEN NewSession(state'.session_id) ELSE state
            r == LatestResult(log', state'.session_id)
            record == disk'[state'.session_id]
        IN /\ state'.session_id = before.session_id
           /\ state'.tasks = before.tasks
           /\ state'.architecture = before.architecture
           /\ task_counter' = task_counter
           /\ state'.completed_summaries =
                 LastN(Append(before.completed_summaries, ToSummaryString(r)), SummaryCap)
           /\ state'.blockers =
                 IF Truthy(r.blocked)
                 THEN Append(before.blockers, <<"architect", r.block_reason>>)
                 ELSE before.blockers
           /\ record # NoRecord
           /\ record.architecture = before.architecture
           /\ Len(record.tasks) = Len(before.tasks)
           /\ \A i \in 1..Len(before.tasks) :
                /\ record.tasks[i].id = before.tasks[i].id
                /\ record.tasks[i].status = before.tasks[i].status]_vars

\* A session with a plan and an architecture text on which a later
\* plan_feature came back with a blocked architect.
C40_Witness ==
    /\ state # NoSession
    /\ last.op = "plan_feature"
    /\ last.outcome = "returned"
    /\ last.n >= 2
    /\ state.tasks # <<>>
    /\ state.architecture # PyNone
    /\ log[state.session_id] # <<>>
    /\ ~LatestResult(log, state.session_id).success
    /\ Truthy(LatestResult(log, state.session_id).blocked)
    /\ state.blockers # <<>>

====
